---- MODULE Spec2Model ----
(***************************************************************************)
(* Software I2C link (src/i2c-ping/soft_i2c.c) between a controller and a  *)
(* VL53L0X responder.  Two responder programs of the repository are        *)
(* modelled: the polled slave (src/i2c-ping/vl53l0x_slave.c, built on the  *)
(* slave primitives of soft_i2c.c) and the edge-driven emulator            *)
(* (src/vl53l0x_emu.c).  Init chooses which of the two is running.         *)
(*                                                                         *)
(* Granularity: one step per GPIO operation of the controller, one step    *)
(* per GPIO operation or satisfied poll of the responder.                  *)
(*                                                                         *)
(* Timing.  Every controller operation that the code follows by            *)
(* usleep(bit_delay) (2000 us) sets mslept; the next controller operation  *)
(* is taken only when the responder has nothing left to do, because the    *)
(* responder polls every 1 .. bit_delay/10 us.  Controller operations not  *)
(* separated by a sleep interleave freely with the responder.  The one     *)
(* place where the responder itself sleeps bit_delay (i2c_slave_listen     *)
(* after the activity poll) races with the controller's sleep of the same  *)
(* length: either may end first, but the responder's sleep ends before the *)
(* controller's following sleep does.                                      *)
(***************************************************************************)
EXTENDS Integers, Sequences, FiniteSets, TLC

\* ---------------------------------------------------------------- constants
VL53L0X_ADDR == 41
\* 0x29
REG_SYSRANGE_START == 0
REG_RESULT_INTERRUPT_STATUS == 19
\* 0x13
REG_RESULT_RANGE_STATUS == 20
\* 0x14
REG_RESULT_RANGE_VAL == 30
\* 0x1E
REG_IDENTIFICATION_MODEL_ID == 192
\* 0xC0
REG_IDENTIFICATION_REVISION_ID == 194
\* 0xC2
VL53L0X_MODEL_ID == 238
\* 0xEE
VL53L0X_REVISION_ID == 16
\* 0x10
REGISTER_SIZE == 256
INITIAL_DISTANCE_SLAVE == 500
INITIAL_DISTANCE_EMU == 1000
CONVERSION_MS == 75
BIT_DELAY_MS == 2

\* ------------------------------------------------------------------- bounds
\* number of controller operations in one run
MaxOps == 3
\* longest read, in bytes
MaxRead == 3

\* bit i (0 = least significant) of byte b
Bit(b, i) == (b \div (2 ^ i)) % 2

\* ---------------------------------------------------------------- workload
\* register indices the controller reads with a one-byte read
PointerBytes == {0, 19, 66, 192, 194}
\* marks a START in the record of what the slave has assembled
StartMark == 0 - 1

VARIABLES
    impl,       \* "slave": vl53l0x_slave.c is running; "emu": vl53l0x_emu.c
    \* ---- controller (soft_i2c.c master side)
    mSda,       \* controller's SDA handle: "in" (input), "lo"/"hi" (output 0/1)
    mScl,       \* controller's SCL handle: "lo"/"hi" (always an output)
    mslept,     \* the last controller operation was followed by usleep(bit_delay)
    m,          \* controller locals: pc, byte, i (bit index), ack, idx, ...
    cur,        \* the operation in progress
    log,        \* completed operations with their results
    wire,       \* what the controller has put on the bus in the current call
    \* ---- responder, shared by both programs
    sSda,       \* responder's SDA handle: "in", "lo", "hi"
    sScl,       \* responder's SCL handle (an input in both programs)
    registers,  \* uint8_t registers[256]
    \* ---- polled slave (vl53l0x_slave.c)
    s,          \* locals of main / soft_i2c.c slave primitives
    current_reg,
    distance_mm,
    sAlarm,     \* controller woke once while the slave sleeps in i2c_slave_listen
    heard,      \* the STARTs the slave has seen and the bytes it has assembled
    \* ---- emulator (vl53l0x_emu.c)
    i2c_state, device_state, bit_count, addr, rw_flag,
    current_register, current_byte, scl_prev, sda_prev,
    measurement_in_progress, elapsed, current_distance

mvars == <<mSda, mScl, mslept, m, cur, log, wire>>
svars == <<s, current_reg, distance_mm, sAlarm, heard>>
evars == <<i2c_state, device_state, bit_count, addr, rw_flag, current_register,
           current_byte, scl_prev, sda_prev, measurement_in_progress, elapsed,
           current_distance>>
vars == <<impl, mvars, sSda, sScl, registers, svars, evars>>

\* --------------------------------------------------------------------- bus
\* Levels a read of SDA can return.  A released line is pulled high.  Two
\* outputs at opposite levels short the line: the level read is not defined.
SdaLevels ==
    LET drv == {mSda, sSda} \ {"in"}
    IN  IF drv = {} THEN {1}
        ELSE IF drv = {"lo"} THEN {0}
        ELSE IF drv = {"hi"} THEN {1}
        ELSE {0, 1}

\* SCL is driven by the controller alone.
SclLevel == IF mScl = "lo" THEN 0 ELSE 1

\* gpiod_line_set_value: sets the level of an output; fails on an input
SetValue(mode, v) ==
    IF mode = "in" THEN "in" ELSE IF v = 1 THEN "hi" ELSE "lo"

\* ------------------------------------------------- responder: what can run
\* The polled slave has a step to take: it is not in a poll whose condition
\* is false.  (The sleep of i2c_slave_listen is handled by sAlarm.)
SlaveReady ==
    CASE s.pc = "wfs" ->
            \E sd \in SdaLevels : <<sd, SclLevel>> # <<s.last_sda, s.last_scl>>
      [] s.pc = "lis_act" -> 0 \in SdaLevels \/ SclLevel = 0
      [] s.pc = "lis_sleep" -> FALSE
      [] s.pc \in {"lis_hi", "rb_hi", "ack_hi", "wf_hi", "wf_ackhi"} -> SclLevel = 1
      [] s.pc \in {"lis_lo", "rb_lo", "ack_lo", "wf_lo", "wf_acklo"} -> SclLevel = 0
      [] OTHER -> TRUE

\* One more iteration of the emulator's loop would change its state.
EmuReady ==
    \/ \E sd \in SdaLevels : <<SclLevel, sd>> # <<scl_prev, sda_prev>>
    \/ measurement_in_progress = 1 /\ elapsed >= CONVERSION_MS

\* The variant slave (vl53l0x_fixed_slave.c) has a step to take: it is not in
\* a poll whose condition is false.  (Its sleeps are handled by sAlarm.)
FixedReady ==
    CASE s.pc = "fl_idle" -> 1 \in SdaLevels /\ SclLevel = 1
      [] s.pc = "fl_act" -> 0 \in SdaLevels \/ SclLevel = 0
      [] s.pc \in {"f_top", "fl_sleep"} -> FALSE
      [] s.pc \in {"fl_hi", "frb_hi", "fa_hi", "fw_hi", "fw_a_hi"} -> SclLevel = 1
      [] s.pc \in {"fl_lo", "frb_lo", "fa_lo", "fw_wlo", "fw_lo", "fw_a_lo", "fw_a_low2"} ->
            SclLevel = 0
      [] OTHER -> TRUE

\* the responder sleeps for about a bit period
Sleeping ==
    \/ impl = "slave" /\ s.pc = "lis_sleep"
    \/ impl = "fixed" /\ s.pc \in {"f_top", "fl_sleep"}

ResponderQuiescent ==
    IF impl = "emu" THEN ~EmuReady
    ELSE IF impl = "fixed" THEN ~FixedReady /\ (Sleeping => ~sAlarm)
    ELSE ~SlaveReady /\ (s.pc = "lis_sleep" => ~sAlarm)

\* -------------------------------------------------------------- controller
\* The controller may take its next step: at once when the previous one was
\* not followed by a sleep, otherwise when the responder has caught up.
MasterMayRun == mslept => ResponderQuiescent

\* START and STOP conditions among the line changes of one controller step
WireEvents(sda2, scl2) ==
    IF mScl = "hi" /\ scl2 = "hi" /\ mSda # "lo" /\ sda2 = "lo" THEN << <<"S", 0, 0>> >>
    ELSE IF mScl = "hi" /\ scl2 = "hi" /\ mSda = "lo" /\ sda2 # "lo" THEN << <<"P", 0, 0>> >>
    ELSE << >>

\* One controller step: new line modes, whether a usleep(bit_delay) follows,
\* new locals.
MStep(sda2, scl2, slept2, m2) ==
    /\ MasterMayRun
    /\ mSda' = sda2
    /\ mScl' = scl2
    /\ mslept' = slept2
    /\ m' = m2
    /\ sAlarm' = (sAlarm \/ (mslept /\ Sleeping))
    /\ elapsed' = IF slept2 /\ measurement_in_progress = 1 /\ elapsed < CONVERSION_MS
                  THEN elapsed + BIT_DELAY_MS ELSE elapsed

munch == <<impl, sSda, sScl, registers, s, current_reg, distance_mm, heard,
           i2c_state, device_state, bit_count, addr, rw_flag, current_register,
           current_byte, scl_prev, sda_prev, measurement_in_progress,
           current_distance>>

\* operations the controller program may issue
\* vl53l0x_write_register, and longer writes: i2c_master_write(data)
Write(a, d) == [kind |-> "write", addr |-> a, data |-> d, n |-> 0]
\* vl53l0x_read_register: i2c_master_write(reg), and on success
\* i2c_master_read of n bytes
ReadReg(a, p, k) == [kind |-> "readreg", addr |-> a, data |-> <<p>>, n |-> k]
\* i2c_master_read of n bytes on its own
Read(a, k) == [kind |-> "read", addr |-> a, data |-> << >>, n |-> k]

WriteData == {<<0, 1>>, <<66, 165>>, <<0, 165, 1>>}

Menu ==
    {Write(VL53L0X_ADDR, d) : d \in WriteData}
    \cup {ReadReg(VL53L0X_ADDR, p, 1) : p \in PointerBytes}
    \cup {ReadReg(VL53L0X_ADDR, REG_IDENTIFICATION_MODEL_ID, MaxRead)}
    \cup {Read(VL53L0X_ADDR, 1)}
    \* other devices: a neighbour of the responder's address, and the address
    \* whose read address byte is 0x29
    \cup {Write(42, <<192>>), Read(20, 1)}

NoOp == [kind |-> "none", addr |-> 0, data |-> << >>, n |-> 0]

\* a faulty i2c_master_write, which sends on after a NACK
MasterWriteNextIgnoringNack(r, idx, length) ==
    IF idx < length THEN [pc |-> "wb_mode", ret |-> 0]
    ELSE [pc |-> "stop_sda0", ret |-> 0]

\* i2c_master_write after i2c_write_byte returned r for the address byte
\* (idx = 0) or for data[idx-1]: the next thing to do
MasterWriteNext(r, idx, length) ==
    IF r # 0 THEN [pc |-> "stop_sda0", ret |-> -1]
    ELSE IF idx < length THEN [pc |-> "wb_mode", ret |-> 0]
    ELSE [pc |-> "stop_sda0", ret |-> 0]

\* a faulty i2c_master_read, which answers the last but one byte with NACK
MasterReadNextShort(r, count, lastack, length) ==
    IF r # 0 THEN [pc |-> "stop_sda0", ret |-> -1, ack |-> 0]
    ELSE IF count > 0 /\ lastack = 1 THEN [pc |-> "stop_sda0", ret |-> 0, ack |-> 0]
    ELSE IF count < length - 2 THEN [pc |-> "rb_in", ret |-> 0, ack |-> 0]
    ELSE [pc |-> "rb_in", ret |-> 0, ack |-> 1]

\* i2c_master_read after the address byte (count = 0, r its result) or after
\* count bytes were read, the last one answered with lastack
MasterReadNext(r, count, lastack, length) ==
    IF r # 0 THEN [pc |-> "stop_sda0", ret |-> -1, ack |-> 0]
    ELSE IF count > 0 /\ lastack = 1 THEN [pc |-> "stop_sda0", ret |-> 0, ack |-> 0]
    ELSE IF count < length - 1 THEN [pc |-> "rb_in", ret |-> 0, ack |-> 0]
    ELSE [pc |-> "rb_in", ret |-> 0, ack |-> 1]

\* The controller program issues its next operation: vl53l0x_write_register /
\* i2c_master_write, or vl53l0x_read_register (pointer write, then read).
MasterCallOf(menu, limit) ==
    /\ m.pc = "idle"
    /\ Len(log) < limit
    /\ \E op \in menu :
        /\ cur' = op
        /\ MStep(mSda, mScl, FALSE,
                 [m EXCEPT !.pc = "start_sda1",
                           !.fn = IF op.kind = "read" THEN "read" ELSE "write",
                           !.byte = (op.addr * 2 + (IF op.kind = "read" THEN 1 ELSE 0)) % 256,
                           !.idx = 0, !.buffer = << >>, !.ret = 0,
                           !.wret = -2, !.rret = -2])
    /\ wire' = << >>
    /\ UNCHANGED <<log, munch>>

MasterCall == MasterCallOf(Menu, MaxOps)

\* i2c_start
I2cStart ==
    /\ m.pc \in {"start_sda1", "start_scl1", "start_sda0", "start_scl0"}
    /\ CASE m.pc = "start_sda1" ->
              /\ MStep(SetValue(mSda, 1), mScl, FALSE, [m EXCEPT !.pc = "start_scl1"])
              /\ wire' = wire \o WireEvents(SetValue(mSda, 1), mScl)
         [] m.pc = "start_scl1" ->
              /\ MStep(mSda, "hi", TRUE, [m EXCEPT !.pc = "start_sda0"])
              /\ wire' = wire
         [] m.pc = "start_sda0" ->
              /\ MStep(SetValue(mSda, 0), mScl, TRUE, [m EXCEPT !.pc = "start_scl0"])
              /\ wire' = wire \o WireEvents(SetValue(mSda, 0), mScl)
         [] m.pc = "start_scl0" ->
              /\ MStep(mSda, "lo", TRUE, [m EXCEPT !.pc = "wb_mode"])
              /\ wire' = wire
    /\ UNCHANGED <<cur, log, munch>>

\* i2c_stop
I2cStop ==
    /\ m.pc \in {"stop_sda0", "stop_scl0", "stop_scl1", "stop_sda1"}
    /\ CASE m.pc = "stop_sda0" ->
              /\ MStep(SetValue(mSda, 0), mScl, FALSE, [m EXCEPT !.pc = "stop_scl0"])
              /\ wire' = wire \o WireEvents(SetValue(mSda, 0), mScl)
         [] m.pc = "stop_scl0" ->
              /\ MStep(mSda, "lo", TRUE, [m EXCEPT !.pc = "stop_scl1"])
              /\ wire' = wire
         [] m.pc = "stop_scl1" ->
              /\ MStep(mSda, "hi", TRUE, [m EXCEPT !.pc = "stop_sda1"])
              /\ wire' = wire
         [] m.pc = "stop_sda1" ->
              /\ MStep(SetValue(mSda, 1), mScl, TRUE, [m EXCEPT !.pc = "ret"])
              /\ wire' = wire \o WireEvents(SetValue(mSda, 1), mScl)
    /\ UNCHANGED <<cur, log, munch>>

\* i2c_write_byte, and the caller's loop around it
I2cWriteByte ==
    /\ m.pc \in {"wb_mode", "wb_bit", "wb_hi", "wb_lo", "wb_in", "wb_ackhi",
                 "wb_sample", "wb_acklo", "wb_out"}
    /\ CASE m.pc = "wb_mode" ->
              MStep("hi", mScl, FALSE, [m EXCEPT !.pc = "wb_bit", !.i = 7])
         [] m.pc = "wb_bit" ->
              MStep(SetValue(mSda, Bit(m.byte, m.i)), mScl, TRUE, [m EXCEPT !.pc = "wb_hi"])
         [] m.pc = "wb_hi" ->
              MStep(mSda, "hi", TRUE, [m EXCEPT !.pc = "wb_lo"])
         [] m.pc = "wb_lo" ->
              MStep(mSda, "lo", TRUE,
                    [m EXCEPT !.pc = IF m.i > 0 THEN "wb_bit" ELSE "wb_in",
                              !.i = m.i - 1])
         [] m.pc = "wb_in" ->
              MStep("in", mScl, FALSE, [m EXCEPT !.pc = "wb_ackhi"])
         [] m.pc = "wb_ackhi" ->
              MStep(mSda, "hi", TRUE, [m EXCEPT !.pc = "wb_sample"])
         [] m.pc = "wb_sample" ->
              \E v \in SdaLevels :
                  MStep(mSda, mScl, FALSE, [m EXCEPT !.pc = "wb_acklo", !.ack = v])
         [] m.pc = "wb_acklo" ->
              MStep(mSda, "lo", TRUE, [m EXCEPT !.pc = "wb_out"])
         [] m.pc = "wb_out" ->
              LET r == IF m.ack = 1 THEN -1 ELSE 0
                  w == MasterWriteNext(r, m.idx, Len(cur.data))
                  d == MasterReadNext(r, 0, 0, cur.n)
              IN  IF m.fn = "write"
                  THEN MStep("hi", mScl, FALSE,
                             [m EXCEPT !.pc = w.pc, !.ret = w.ret,
                                       !.byte = IF w.pc = "wb_mode"
                                                THEN cur.data[m.idx + 1] ELSE m.byte,
                                       !.idx = IF w.pc = "wb_mode" THEN m.idx + 1 ELSE m.idx])
                  ELSE MStep("hi", mScl, FALSE,
                             [m EXCEPT !.pc = d.pc, !.ret = d.ret, !.ack = d.ack])
    /\ wire' = IF m.pc = "wb_sample"
               THEN Append(wire, <<"W", m.byte, m'.ack>>) ELSE wire
    /\ UNCHANGED <<cur, log, munch>>

\* i2c_read_byte, and the loop of i2c_master_read around it
I2cReadByte ==
    /\ m.pc \in {"rb_in", "rb_hi", "rb_sample", "rb_lo", "rb_out", "rb_ack",
                 "rb_ackhi", "rb_acklo"}
    /\ CASE m.pc = "rb_in" ->
              MStep("in", mScl, FALSE, [m EXCEPT !.pc = "rb_hi", !.byte = 0, !.i = 7])
         [] m.pc = "rb_hi" ->
              MStep(mSda, "hi", TRUE, [m EXCEPT !.pc = "rb_sample"])
         [] m.pc = "rb_sample" ->
              \E v \in SdaLevels :
                  MStep(mSda, mScl, FALSE,
                        [m EXCEPT !.pc = "rb_lo", !.byte = m.byte + v * (2 ^ m.i)])
         [] m.pc = "rb_lo" ->
              MStep(mSda, "lo", TRUE,
                    [m EXCEPT !.pc = IF m.i > 0 THEN "rb_hi" ELSE "rb_out",
                              !.i = m.i - 1])
         [] m.pc = "rb_out" ->
              MStep("hi", mScl, FALSE, [m EXCEPT !.pc = "rb_ack"])
         [] m.pc = "rb_ack" ->
              MStep(SetValue(mSda, m.ack), mScl, FALSE, [m EXCEPT !.pc = "rb_ackhi"])
         [] m.pc = "rb_ackhi" ->
              MStep(mSda, "hi", TRUE, [m EXCEPT !.pc = "rb_acklo"])
         [] m.pc = "rb_acklo" ->
              LET d == MasterReadNext(0, Len(m.buffer) + 1, m.ack, cur.n)
              IN  MStep(mSda, "lo", TRUE,
                        [m EXCEPT !.pc = d.pc, !.ret = d.ret, !.ack = d.ack,
                                  !.buffer = Append(m.buffer, m.byte)])
    /\ wire' = IF m.pc = "rb_acklo"
               THEN Append(wire, <<"R", m.byte, m.ack>>) ELSE wire
    /\ UNCHANGED <<cur, log, munch>>

\* Return from i2c_master_write / i2c_master_read to the controller program.
\* vl53l0x_read_register goes on to read when its pointer write succeeded.
MasterReturn ==
    /\ m.pc = "ret"
    /\ IF cur.kind = "readreg" /\ m.fn = "write" /\ m.ret = 0
       THEN /\ MStep(mSda, mScl, FALSE,
                     [m EXCEPT !.pc = "start_sda1", !.fn = "read", !.wret = m.ret,
                               !.byte = (cur.addr * 2 + 1) % 256, !.idx = 0])
            /\ wire' = << >>
            /\ UNCHANGED <<cur, log>>
       ELSE /\ MStep(mSda, mScl, TRUE, [m EXCEPT !.pc = "idle"])
            /\ log' = Append(log,
                        [op |-> cur,
                         wret |-> IF m.fn = "write" THEN m.ret ELSE m.wret,
                         rret |-> IF m.fn = "read" THEN m.ret ELSE m.rret,
                         buffer |-> m.buffer])
            /\ cur' = NoOp
            /\ wire' = wire
    /\ UNCHANGED munch

\* ------------------------------------------------- polled slave (responder)
mstate == <<mSda, mScl, mslept, m, cur, log, wire, elapsed>>
emuonly == <<i2c_state, device_state, bit_count, addr, rw_flag, current_register,
             current_byte, scl_prev, sda_prev, measurement_in_progress,
             current_distance>>

\* The record of what the slave has heard, with one more entry; it is long
\* enough for MaxOps operations of the controller and is not extended beyond.
MaxHeard == 5 * (MaxOps + 1)
Hear(x) == IF Len(heard) < MaxHeard THEN Append(heard, x) ELSE heard

\* entry of wait_for_start: its locals are initialised to "both lines high"
EnterWfs(ss) == [ss EXCEPT !.pc = "wfs", !.last_sda = 1, !.last_scl = 1]

\* wait_for_start: one poll that sees the lines changed
WaitForStart ==
    /\ impl = "slave" /\ s.pc = "wfs"
    /\ \E sd \in SdaLevels :
        /\ <<sd, SclLevel>> # <<s.last_sda, s.last_scl>>
        /\ IF s.last_scl = 1 /\ SclLevel = 1 /\ s.last_sda = 1 /\ sd = 0
           THEN /\ s' = [s EXCEPT !.pc = "lis_act"]
                /\ heard' = Hear(StartMark)
           ELSE /\ s' = [s EXCEPT !.last_sda = sd, !.last_scl = SclLevel]
                /\ heard' = heard
    /\ UNCHANGED <<impl, mstate, sSda, sScl, registers, current_reg, distance_mm,
                   sAlarm, emuonly>>

\* i2c_slave_listen's verdict on the eight bits it sampled
ListenResult(address) ==
    IF address \div 2 # VL53L0X_ADDR THEN -1 ELSE address % 2

\* i2c_slave_listen up to its call of i2c_slave_send_ack
SlaveListen ==
    /\ impl = "slave"
    /\ s.pc \in {"lis_act", "lis_sleep", "lis_hi", "lis_lo"}
    /\ CASE s.pc = "lis_act" ->
              /\ \E sd \in SdaLevels : sd = 0 \/ SclLevel = 0
              /\ s' = [s EXCEPT !.pc = "lis_sleep"]
              /\ heard' = heard
         [] s.pc = "lis_sleep" ->
              /\ s' = [s EXCEPT !.pc = "lis_hi", !.i = 7, !.address = 0]
              /\ heard' = heard
         [] s.pc = "lis_hi" ->
              /\ SclLevel = 1
              /\ \E sd \in SdaLevels :
                    s' = [s EXCEPT !.pc = "lis_lo",
                                   !.address = s.address + sd * (2 ^ s.i)]
              /\ heard' = heard
         [] s.pc = "lis_lo" ->
              /\ SclLevel = 0
              /\ IF s.i > 0
                 THEN /\ s' = [s EXCEPT !.pc = "lis_hi", !.i = s.i - 1]
                      /\ heard' = heard
                 ELSE /\ heard' = Hear(s.address)
                      /\ IF ListenResult(s.address) < 0
                         THEN s' = EnterWfs(s)
                         ELSE s' = [s EXCEPT !.pc = "ack_mode", !.cont = "listen",
                                             !.rw = ListenResult(s.address)]
    /\ sAlarm' = FALSE
    /\ UNCHANGED <<impl, mstate, sSda, sScl, registers, current_reg, distance_mm,
                   emuonly>>

\* i2c_slave_send_ack(config, 0), and the return of its caller
SlaveSendAck ==
    /\ impl = "slave"
    /\ s.pc \in {"ack_mode", "ack_set", "ack_hi", "ack_lo", "ack_rel"}
    /\ CASE s.pc = "ack_mode" -> sSda' = "hi" /\ s' = [s EXCEPT !.pc = "ack_set"]
         [] s.pc = "ack_set" -> sSda' = SetValue(sSda, 0) /\ s' = [s EXCEPT !.pc = "ack_hi"]
         [] s.pc = "ack_hi" -> SclLevel = 1 /\ sSda' = sSda /\ s' = [s EXCEPT !.pc = "ack_lo"]
         [] s.pc = "ack_lo" -> SclLevel = 0 /\ sSda' = sSda /\ s' = [s EXCEPT !.pc = "ack_rel"]
         [] s.pc = "ack_rel" ->
              /\ sSda' = "in"
              /\ s' = [s EXCEPT !.pc = IF s.cont = "listen" THEN "main_listen"
                                       ELSE IF s.cont = "reg" THEN "main_reg"
                                       ELSE "main_val"]
    /\ UNCHANGED <<impl, mstate, sScl, registers, current_reg, distance_mm, sAlarm,
                   heard, emuonly>>

\* i2c_slave_read_byte up to its call of i2c_slave_send_ack
SlaveReadByte ==
    /\ impl = "slave"
    /\ s.pc \in {"rb_mode", "rb_hi", "rb_lo"}
    /\ CASE s.pc = "rb_mode" ->
              /\ sSda' = "in"
              /\ s' = [s EXCEPT !.pc = "rb_hi", !.i = 7, !.byte = 0]
              /\ heard' = heard
         [] s.pc = "rb_hi" ->
              /\ SclLevel = 1
              /\ sSda' = sSda
              /\ \E sd \in SdaLevels :
                    s' = [s EXCEPT !.pc = "rb_lo", !.byte = s.byte + sd * (2 ^ s.i)]
              /\ heard' = heard
         [] s.pc = "rb_lo" ->
              /\ SclLevel = 0
              /\ sSda' = sSda
              /\ IF s.i > 0
                 THEN /\ s' = [s EXCEPT !.pc = "rb_hi", !.i = s.i - 1]
                      /\ heard' = heard
                 ELSE /\ s' = [s EXCEPT !.pc = "ack_mode"]
                      /\ heard' = Hear(s.byte)
    /\ UNCHANGED <<impl, mstate, sScl, registers, current_reg, distance_mm, sAlarm,
                   emuonly>>

\* slave_write_byte_fixed
SlaveWriteByteFixed ==
    /\ impl = "slave"
    /\ s.pc \in {"wf_mode", "wf_bit", "wf_hi", "wf_lo", "wf_rel1", "wf_rel2",
                 "wf_ackhi", "wf_acklo"}
    /\ CASE s.pc = "wf_mode" -> sSda' = "lo" /\ s' = [s EXCEPT !.pc = "wf_bit", !.i = 7]
         [] s.pc = "wf_bit" ->
              /\ sSda' = SetValue(sSda, Bit(s.value, s.i))
              /\ s' = [s EXCEPT !.pc = "wf_hi"]
         [] s.pc = "wf_hi" -> SclLevel = 1 /\ sSda' = sSda /\ s' = [s EXCEPT !.pc = "wf_lo"]
         [] s.pc = "wf_lo" ->
              /\ SclLevel = 0
              /\ sSda' = sSda
              /\ s' = [s EXCEPT !.pc = IF s.i > 0 THEN "wf_bit" ELSE "wf_rel1",
                                !.i = s.i - 1]
         [] s.pc = "wf_rel1" -> sSda' = SetValue(sSda, 1) /\ s' = [s EXCEPT !.pc = "wf_rel2"]
         [] s.pc = "wf_rel2" -> sSda' = "in" /\ s' = [s EXCEPT !.pc = "wf_ackhi"]
         [] s.pc = "wf_ackhi" ->
              /\ SclLevel = 1
              /\ sSda' = sSda
              /\ \E sd \in SdaLevels : s' = [s EXCEPT !.pc = "wf_acklo", !.ack = sd]
         [] s.pc = "wf_acklo" ->
              /\ SclLevel = 0
              /\ sSda' = "in"
              /\ s' = [s EXCEPT !.pc = "main_wdone"]
    /\ UNCHANGED <<impl, mstate, sScl, registers, current_reg, distance_mm, sAlarm,
                   heard, emuonly>>

\* main of vl53l0x_slave.c: a data byte written to the selected register
StoreValue(regs, reg, value, dist) ==
    LET d2 == IF dist + 10 > 1000 THEN 100 ELSE dist + 10
    IN  IF value % 2 = 1
        THEN [registers |-> [regs EXCEPT ![reg] = value,
                                         ![REG_RESULT_RANGE_VAL] = (d2 \div 256) % 256,
                                         ![REG_RESULT_RANGE_VAL + 1] = d2 % 256],
              distance_mm |-> d2]
        ELSE [registers |-> [regs EXCEPT ![reg] = value], distance_mm |-> dist]

\* a faulty main, which reads a data byte after every register address
ReadsValueAlways(reg) == reg \in 0..(REGISTER_SIZE - 1)

\* main of vl53l0x_slave.c: does it go on to read a data byte after the
\* register address?
ReadsValue(reg) == reg = REG_SYSRANGE_START

\* main of vl53l0x_slave.c between the calls of the slave primitives
SlaveMain ==
    /\ impl = "slave"
    /\ s.pc \in {"main_listen", "main_reg", "chk", "main_val", "main_wdone"}
    /\ CASE s.pc = "main_listen" ->
              /\ IF s.rw = 0
                 THEN s' = [s EXCEPT !.pc = "rb_mode", !.cont = "reg"]
                 ELSE s' = [s EXCEPT !.pc = "wf_mode", !.value = registers[current_reg]]
              /\ UNCHANGED <<registers, current_reg, distance_mm>>
         [] s.pc = "main_reg" ->
              /\ current_reg' = s.byte
              /\ IF ReadsValue(s.byte)
                 THEN s' = [s EXCEPT !.pc = "chk"]
                 ELSE s' = EnterWfs(s)
              /\ UNCHANGED <<registers, distance_mm>>
         [] s.pc = "chk" ->
              /\ IF SclLevel = 0
                 THEN s' = [s EXCEPT !.pc = "rb_mode", !.cont = "val"]
                 ELSE s' = EnterWfs(s)
              /\ UNCHANGED <<registers, current_reg, distance_mm>>
         [] s.pc = "main_val" ->
              LET r == StoreValue(registers, current_reg, s.byte, distance_mm)
              IN  /\ registers' = r.registers
                  /\ distance_mm' = r.distance_mm
                  /\ s' = EnterWfs(s)
                  /\ UNCHANGED current_reg
         [] s.pc = "main_wdone" ->
              /\ current_reg' = (current_reg + 1) % REGISTER_SIZE
              /\ s' = EnterWfs(s)
              /\ UNCHANGED <<registers, distance_mm>>
    /\ UNCHANGED <<impl, mstate, sSda, sScl, sAlarm, heard, emuonly>>

\* ------------------------------------------------ emulator (vl53l0x_emu.c)
\* distances update_distance can leave, standing for rand() % 101 - 50
RandChanges == {-50, 50}

\* the emulator's file-scope state as one record
EmuState ==
    [registers |-> registers, sda |-> sSda, i2c_state |-> i2c_state,
     device_state |-> device_state, bit_count |-> bit_count, addr |-> addr,
     rw_flag |-> rw_flag, current_register |-> current_register,
     current_byte |-> current_byte, mip |-> measurement_in_progress,
     elapsed |-> elapsed, current_distance |-> current_distance]

\* a faulty update_distance, which does not clamp the new distance
UpdateDistanceUnclamped(dist, change) ==
    (dist + change) % 65536

\* update_distance
UpdateDistance(dist, change) ==
    LET d == dist + change
    IN  IF d < 100 THEN 100 ELSE IF d > 2000 THEN 2000 ELSE d

\* check_measurement
CheckMeasurement(E, change) ==
    IF E.mip = 1 /\ E.elapsed >= CONVERSION_MS
    THEN [E EXCEPT !.registers =
                       [E.registers EXCEPT
                           ![REG_RESULT_RANGE_STATUS + 10] = (E.current_distance \div 256) % 256,
                           ![REG_RESULT_RANGE_STATUS + 11] = E.current_distance % 256,
                           ![REG_RESULT_INTERRUPT_STATUS] = 7],
                   !.mip = 0,
                   !.device_state = "STATE_IDLE",
                   !.current_distance = UpdateDistance(E.current_distance, change)]
    ELSE E

\* start_measurement
StartMeasurement(E) ==
    [E EXCEPT !.device_state = "STATE_MEASURING", !.mip = 1, !.elapsed = 0,
              !.registers = [E.registers EXCEPT ![REG_SYSRANGE_START] = 0,
                                                ![REG_RESULT_INTERRUPT_STATUS] = 0]]

\* i2c_slave_loop, case I2C_DATA_BITS after the eighth bit: a byte was written
EmuStore(E) ==
    LET E1 == IF E.current_register = REG_SYSRANGE_START /\ E.current_byte = 1
              THEN IF E.device_state \in {"STATE_IDLE", "STATE_REG_SELECTED"}
                   THEN StartMeasurement(E) ELSE E
              ELSE [E EXCEPT !.registers[E.current_register] = E.current_byte]
    IN  [E1 EXCEPT !.i2c_state = "I2C_DATA_ACK",
                   !.current_register = (E.current_register + 1) % 256]

\* i2c_slave_loop, case I2C_REGISTER_READ after the eighth bit: a byte was read
EmuSent(E) ==
    LET regs == IF E.current_register = REG_RESULT_INTERRUPT_STATUS
                   /\ E.registers[REG_RESULT_INTERRUPT_STATUS] = 7
                THEN [E.registers EXCEPT ![REG_RESULT_INTERRUPT_STATUS] = 0]
                ELSE E.registers
    IN  [E EXCEPT !.i2c_state = "I2C_DATA_ACK", !.sda = "in", !.registers = regs,
                  !.current_register = (E.current_register + 1) % 256]

\* i2c_slave_loop: SCL rising edge, b the level read from SDA
OnRising(E, b) ==
    CASE E.i2c_state = "I2C_START" ->
            [E EXCEPT !.i2c_state = "I2C_ADDR_BITS", !.bit_count = 0, !.addr = 0]
      [] E.i2c_state = "I2C_ADDR_BITS" ->
            IF E.bit_count < 7
            THEN [E EXCEPT !.addr = (E.addr * 2 + b) % 256, !.bit_count = E.bit_count + 1]
            ELSE IF E.addr = VL53L0X_ADDR
            THEN [E EXCEPT !.rw_flag = b, !.i2c_state = "I2C_ADDR_ACK",
                           !.device_state = "STATE_ADDR_MATCHED",
                           !.bit_count = E.bit_count + 1]
            ELSE [E EXCEPT !.rw_flag = b, !.i2c_state = "I2C_IDLE",
                           !.bit_count = E.bit_count + 1]
      [] E.i2c_state = "I2C_REG_BITS" ->
            IF E.bit_count < 8
            THEN [E EXCEPT !.current_register = (E.current_register * 2 + b) % 256,
                           !.bit_count = E.bit_count + 1]
            ELSE [E EXCEPT !.i2c_state = "I2C_REG_ACK",
                           !.device_state = "STATE_REG_SELECTED"]
      [] E.i2c_state = "I2C_DATA_BITS" ->
            IF E.bit_count < 8
            THEN [E EXCEPT !.current_byte = (E.current_byte * 2 + b) % 256,
                           !.bit_count = E.bit_count + 1]
            ELSE EmuStore(E)
      [] E.i2c_state = "I2C_REGISTER_READ" ->
            IF E.bit_count < 8
            THEN [E EXCEPT !.sda = IF Bit(E.registers[E.current_register], 7 - E.bit_count) = 1
                                   THEN "in" ELSE "lo",
                           !.bit_count = E.bit_count + 1]
            ELSE EmuSent(E)
      [] OTHER -> E

\* i2c_slave_loop: SCL falling edge, b the level read from SDA
OnFalling(E, b) ==
    CASE E.i2c_state = "I2C_ADDR_ACK" ->
            IF E.device_state = "STATE_ADDR_MATCHED"
            THEN IF E.rw_flag = 0
                 THEN [E EXCEPT !.sda = "lo", !.i2c_state = "I2C_REG_BITS",
                                !.current_register = 0, !.bit_count = 0]
                 ELSE [E EXCEPT !.sda = "lo", !.i2c_state = "I2C_REGISTER_READ",
                                !.bit_count = 0]
            ELSE E
      [] E.i2c_state = "I2C_REG_ACK" ->
            [E EXCEPT !.sda = "lo", !.i2c_state = "I2C_DATA_BITS",
                      !.current_byte = 0, !.bit_count = 0]
      [] E.i2c_state = "I2C_DATA_ACK" ->
            IF E.rw_flag = 0
            THEN [E EXCEPT !.sda = "lo", !.i2c_state = "I2C_DATA_BITS",
                           !.current_byte = 0, !.bit_count = 0]
            ELSE IF b = 1
            THEN [E EXCEPT !.i2c_state = "I2C_IDLE", !.sda = "in"]
            ELSE [E EXCEPT !.i2c_state = "I2C_REGISTER_READ", !.bit_count = 0]
      [] OTHER -> E

\* i2c_slave_loop: what one iteration makes of the levels it reads
EmuEdge(E, scl, sd, b) ==
    IF scl = 1 /\ scl_prev = 1 /\ sda_prev = 1 /\ sd = 0
    THEN [E EXCEPT !.i2c_state = "I2C_START", !.addr = 0, !.bit_count = 0]
    ELSE IF scl = 1 /\ scl_prev = 1 /\ sda_prev = 0 /\ sd = 1
    THEN [E EXCEPT !.i2c_state = "I2C_IDLE", !.sda = "in"]
    ELSE IF scl_prev = 0 /\ scl = 1 THEN OnRising(E, b)
    ELSE IF scl_prev = 1 /\ scl = 0 THEN OnFalling(E, b)
    ELSE E

\* one iteration of the while loop of i2c_slave_loop
EmuLoop ==
    /\ impl = "emu"
    /\ EmuReady
    /\ \E sd \in SdaLevels, b \in SdaLevels, change \in RandChanges :
        LET E == EmuEdge(CheckMeasurement(EmuState, change), SclLevel, sd, b)
        IN  /\ registers' = E.registers
            /\ sSda' = E.sda
            /\ i2c_state' = E.i2c_state
            /\ device_state' = E.device_state
            /\ bit_count' = E.bit_count
            /\ addr' = E.addr
            /\ rw_flag' = E.rw_flag
            /\ current_register' = E.current_register
            /\ current_byte' = E.current_byte
            /\ measurement_in_progress' = E.mip
            /\ elapsed' = E.elapsed
            /\ current_distance' = E.current_distance
            /\ scl_prev' = SclLevel
            /\ sda_prev' = sd
    /\ UNCHANGED <<impl, mSda, mScl, mslept, m, cur, log, wire, sScl, svars>>

\* ------------------------------------------------------------------- start
\* i2c_init, the controller's set-up, requests SCL as an output at level 1
SclRequestOfMaster == "hi"
\* i2c_init_slave and setup_gpio: the responder requests SCL as an input
SclRequest == "in"

\* init_registers of vl53l0x_slave.c
SlaveInitRegisters ==
    [r \in 0..(REGISTER_SIZE - 1) |->
        CASE r = REG_IDENTIFICATION_MODEL_ID -> VL53L0X_MODEL_ID
          [] r = REG_IDENTIFICATION_REVISION_ID -> VL53L0X_REVISION_ID
          [] r = REG_RESULT_RANGE_VAL -> (INITIAL_DISTANCE_SLAVE \div 256) % 256
          [] r = REG_RESULT_RANGE_VAL + 1 -> INITIAL_DISTANCE_SLAVE % 256
          [] r = REG_RESULT_INTERRUPT_STATUS -> 7
          [] OTHER -> 0]

\* init_registers of vl53l0x_emu.c
EmuInitRegisters ==
    [r \in 0..(REGISTER_SIZE - 1) |->
        CASE r = REG_IDENTIFICATION_MODEL_ID -> VL53L0X_MODEL_ID
          [] r = REG_IDENTIFICATION_REVISION_ID -> VL53L0X_REVISION_ID
          [] r = REG_RESULT_RANGE_STATUS + 10 -> (INITIAL_DISTANCE_EMU \div 256) % 256
          [] r = REG_RESULT_RANGE_STATUS + 11 -> INITIAL_DISTANCE_EMU % 256
          [] r = 132 -> 1
          [] OTHER -> 0]

Init ==
    /\ impl \in {"slave", "emu"}
    /\ mSda = "hi"
    /\ mScl = "hi"
    /\ mslept = TRUE
    /\ m = [pc |-> "idle", fn |-> "write", byte |-> 0, i |-> 0, ack |-> 0, idx |-> 0,
            buffer |-> << >>, ret |-> 0, wret |-> -2, rret |-> -2]
    /\ cur = NoOp
    /\ log = << >>
    /\ wire = << >>
    /\ sSda = "in"
    /\ sScl = SclRequest
    /\ registers = IF impl = "slave" THEN SlaveInitRegisters ELSE EmuInitRegisters
    /\ s = [pc |-> "wfs", last_sda |-> 1, last_scl |-> 1, address |-> 0, byte |-> 0,
            i |-> 0, rw |-> 0, ack |-> 0, cont |-> "listen", value |-> 0]
    /\ current_reg = 0
    /\ distance_mm = INITIAL_DISTANCE_SLAVE
    /\ sAlarm = FALSE
    /\ heard = << >>
    /\ i2c_state = "I2C_IDLE"
    /\ device_state = "STATE_IDLE"
    /\ bit_count = 0
    /\ addr = 0
    /\ rw_flag = 0
    /\ current_register = 0
    /\ current_byte = 0
    /\ scl_prev = 1
    /\ sda_prev = 1
    /\ measurement_in_progress = 0
    /\ elapsed = 0
    /\ current_distance = INITIAL_DISTANCE_EMU

Next ==
    \/ MasterCall \/ I2cStart \/ I2cWriteByte \/ I2cReadByte \/ I2cStop \/ MasterReturn
    \/ WaitForStart \/ SlaveListen \/ SlaveSendAck \/ SlaveReadByte
    \/ SlaveWriteByteFixed \/ SlaveMain
    \/ EmuLoop

Spec == Init /\ [][Next]_vars

\* ------------------------------------------------------- measurement walk
\* The measurement bookkeeping of the two responders on its own: the values
\* the distance registers take over any number of measurements.
\* outcomes of (rand() % 101) - 50 in update_distance: the two extremes, zero
\* and a step that makes every distance reachable
WalkChanges == {-50, -7, 0, 7, 50}

\* time in ms that may pass between two passes of i2c_slave_loop: less than
\* the conversion time, or all of it
WalkDelays == {40, CONVERSION_MS}

\* values the polled slave may find written to register 0x00
StartValues == {0, 1, 255}

walkrest == <<impl, mSda, mScl, mslept, m, cur, log, wire, sSda, sScl, s, current_reg,
              sAlarm, heard, i2c_state, bit_count, addr, rw_flag, current_register,
              current_byte, scl_prev, sda_prev>>

\* main of vl53l0x_slave.c: a data byte for register 0x00 has been read
WalkSlaveStore ==
    /\ impl = "slave"
    /\ \E value \in StartValues :
          LET r == StoreValue(registers, REG_SYSRANGE_START, value, distance_mm)
          IN  /\ registers' = r.registers
              /\ distance_mm' = r.distance_mm
    /\ UNCHANGED <<walkrest, device_state, measurement_in_progress, elapsed,
                   current_distance>>

\* i2c_slave_loop: 0x01 has been written to register 0x00
WalkEmuStart ==
    /\ impl = "emu"
    /\ device_state \in {"STATE_IDLE", "STATE_REG_SELECTED"}
    /\ LET E == StartMeasurement(EmuState)
       IN  /\ registers' = E.registers
           /\ device_state' = E.device_state
           /\ measurement_in_progress' = E.mip
           /\ elapsed' = E.elapsed
    /\ UNCHANGED <<walkrest, distance_mm, current_distance>>

\* i2c_slave_loop: one pass of the loop, which begins with check_measurement,
\* after some time has passed
WalkEmuCheck ==
    /\ impl = "emu"
    /\ \E dt \in WalkDelays, change \in WalkChanges :
          LET t2 == IF measurement_in_progress = 1
                    THEN IF elapsed + dt > CONVERSION_MS THEN CONVERSION_MS
                         ELSE elapsed + dt
                    ELSE elapsed
              E == CheckMeasurement([EmuState EXCEPT !.elapsed = t2], change)
          IN  /\ registers' = E.registers
              /\ device_state' = E.device_state
              /\ measurement_in_progress' = E.mip
              /\ elapsed' = E.elapsed
              /\ current_distance' = E.current_distance
    /\ UNCHANGED <<walkrest, distance_mm>>

WalkNext == WalkSlaveStore \/ WalkEmuStart \/ WalkEmuCheck

SpecWalk == Init /\ [][WalkNext]_vars

\* ------------------------------------------------- stalls and restarts
\* The controller's bit timing is not guaranteed here: the controller program
\* may be stopped in the middle of a transaction, with the lines left as they
\* are, and it may be ended and started again.  While the controller is
\* stopped or between two operations the bus is quiet for longer than any
\* bounded poll of the polled slave, so these polls may run out.
FaultOps == 2
MaxAborts == 1

FaultMenu ==
    {Write(VL53L0X_ADDR, <<0, 1>>), Read(VL53L0X_ADDR, 1)}

\* the controller program issues its next operation
FaultCall == MasterCallOf(FaultMenu, FaultOps)

\* log entry of an operation that was cut off
Aborted == 0 - 3

\* The controller program ends in the middle of an operation, which releases
\* its lines, and a new one starts: i2c_init requests both lines as outputs
\* at 1.
MasterAbort ==
    /\ m.pc \notin {"idle", "ret", "halt"}
    /\ Len(log) < FaultOps
    /\ Cardinality({k \in 1..Len(log) : log[k].wret = Aborted}) < MaxAborts
    /\ MStep("hi", "hi", TRUE, [m EXCEPT !.pc = "idle"])
    /\ log' = Append(log, [op |-> cur, wret |-> Aborted, rret |-> Aborted,
                           buffer |-> << >>])
    /\ cur' = NoOp
    /\ wire' = wire \o WireEvents("hi", "hi")
    /\ UNCHANGED munch

\* The controller program is stopped for good in the middle of an operation;
\* the lines stay as they are.
MasterHalt ==
    /\ m.pc \notin {"idle", "ret", "halt"}
    /\ MStep(mSda, mScl, TRUE, [m EXCEPT !.pc = "halt"])
    /\ UNCHANGED <<cur, log, wire, munch>>

\* the bus stays as it is for longer than any bounded poll
BusQuiet == m.pc \in {"idle", "halt"}

\* A bounded poll of the polled slave runs out: wait_for_start (100000
\* polls), the activity poll of i2c_slave_listen (10000), the SCL polls of
\* i2c_slave_listen and i2c_slave_send_ack (1000 each).
SlaveTimeout ==
    /\ impl = "slave"
    /\ BusQuiet
    /\ CASE s.pc = "wfs" ->
              /\ <<s.last_sda, s.last_scl>> # <<1, 1>>
              /\ s' = EnterWfs(s)
              /\ heard' = heard
         [] s.pc = "lis_act" ->
              /\ SclLevel = 1 /\ 1 \in SdaLevels
              /\ s' = EnterWfs(s)
              /\ heard' = heard
         [] s.pc = "lis_hi" ->
              /\ SclLevel = 0
              /\ s' = EnterWfs(s)
              /\ heard' = heard
         [] s.pc = "lis_lo" ->
              /\ SclLevel = 1
              /\ IF s.i > 0
                 THEN /\ s' = [s EXCEPT !.pc = "lis_hi", !.i = s.i - 1]
                      /\ heard' = heard
                 ELSE /\ heard' = Hear(s.address)
                      /\ IF ListenResult(s.address) < 0
                         THEN s' = EnterWfs(s)
                         ELSE s' = [s EXCEPT !.pc = "ack_mode", !.cont = "listen",
                                             !.rw = ListenResult(s.address)]
         [] s.pc = "ack_hi" ->
              /\ SclLevel = 0
              /\ s' = [s EXCEPT !.pc = "ack_lo"]
              /\ heard' = heard
         [] s.pc = "ack_lo" ->
              /\ SclLevel = 1
              /\ s' = [s EXCEPT !.pc = "ack_rel"]
              /\ heard' = heard
         [] OTHER -> FALSE /\ UNCHANGED <<s, heard>>
    /\ sAlarm' = FALSE
    /\ UNCHANGED <<impl, mstate, sSda, sScl, registers, current_reg, distance_mm,
                   emuonly>>

\* the steps of the responder process
Responder ==
    \/ WaitForStart \/ SlaveListen \/ SlaveSendAck \/ SlaveReadByte
    \/ SlaveWriteByteFixed \/ SlaveMain \/ SlaveTimeout

\* the steps of the controller process
Controller ==
    \/ FaultCall \/ I2cStart \/ I2cWriteByte \/ I2cReadByte \/ I2cStop \/ MasterReturn
    \/ MasterAbort \/ MasterHalt

FaultNext ==
    \/ FaultCall \/ I2cStart \/ I2cWriteByte \/ I2cReadByte \/ I2cStop \/ MasterReturn
    \/ MasterAbort \/ MasterHalt
    \/ WaitForStart \/ SlaveListen \/ SlaveSendAck \/ SlaveReadByte
    \/ SlaveWriteByteFixed \/ SlaveMain \/ SlaveTimeout

\* the polled slave is the responder
FaultInit == Init /\ impl = "slave"

\* Controller and responder are running processes: each takes a step whenever
\* it has one.  Being stopped is a step of the controller, after which it has
\* none.
SpecFault ==
    FaultInit /\ [][FaultNext]_vars /\ WF_vars(Responder) /\ WF_vars(Controller)

\* ------------------------------- variant slave (vl53l0x_fixed_slave.c)
\* The variant of the polled slave whose main loop calls i2c_slave_listen
\* without wait_for_start, with the variant of soft_i2c.c whose
\* i2c_slave_listen first polls for an idle bus and whose
\* i2c_slave_write_byte bounds its polls.
FixedOps == 2
I2C_ACK_ATTEMPTS == 5

FixedData == {<<0, 1>>, <<66, 84>>}

FixedMenu ==
    {Write(VL53L0X_ADDR, d) : d \in FixedData} \cup {Read(VL53L0X_ADDR, 1)}

\* the controller program issues its next operation
FixedCall == MasterCallOf(FixedMenu, FixedOps)

fixedrest == <<impl, mstate, sScl, emuonly>>

\* main: the pause at the top of the loop; i2c_slave_listen up to its call of
\* i2c_slave_send_ack
FixedListen ==
    /\ impl = "fixed"
    /\ s.pc \in {"f_top", "fl_idle", "fl_act", "fl_sleep", "fl_hi", "fl_lo"}
    /\ CASE s.pc = "f_top" ->
              /\ s' = [s EXCEPT !.pc = "fl_idle"]
              /\ heard' = heard
         [] s.pc = "fl_idle" ->
              /\ \E sd \in SdaLevels : sd = 1 /\ SclLevel = 1
              /\ s' = [s EXCEPT !.pc = "fl_act"]
              /\ heard' = heard
         [] s.pc = "fl_act" ->
              /\ \E sd \in SdaLevels : sd = 0 \/ SclLevel = 0
              /\ s' = [s EXCEPT !.pc = "fl_sleep"]
              /\ heard' = heard
         [] s.pc = "fl_sleep" ->
              /\ s' = [s EXCEPT !.pc = "fl_hi", !.i = 7, !.address = 0]
              /\ heard' = heard
         [] s.pc = "fl_hi" ->
              /\ SclLevel = 1
              /\ \E sd \in SdaLevels :
                    s' = [s EXCEPT !.pc = "fl_lo",
                                   !.address = s.address + sd * (2 ^ s.i)]
              /\ heard' = heard
         [] s.pc = "fl_lo" ->
              /\ SclLevel = 0
              /\ IF s.i > 0
                 THEN /\ s' = [s EXCEPT !.pc = "fl_hi", !.i = s.i - 1]
                      /\ heard' = heard
                 ELSE /\ heard' = Hear(s.address)
                      /\ IF ListenResult(s.address) < 0
                         THEN s' = [s EXCEPT !.pc = "f_top"]
                         ELSE s' = [s EXCEPT !.pc = "fa_mode", !.cont = "listen",
                                             !.rw = ListenResult(s.address)]
    /\ sAlarm' = FALSE
    /\ UNCHANGED <<fixedrest, sSda, registers, current_reg, distance_mm>>

\* i2c_slave_send_ack(config, 0), and the return of its caller
FixedSendAck ==
    /\ impl = "fixed"
    /\ s.pc \in {"fa_mode", "fa_set", "fa_hi", "fa_lo", "fa_rel"}
    /\ CASE s.pc = "fa_mode" -> sSda' = "hi" /\ s' = [s EXCEPT !.pc = "fa_set"]
         [] s.pc = "fa_set" -> sSda' = SetValue(sSda, 0) /\ s' = [s EXCEPT !.pc = "fa_hi"]
         [] s.pc = "fa_hi" -> SclLevel = 1 /\ sSda' = sSda /\ s' = [s EXCEPT !.pc = "fa_lo"]
         [] s.pc = "fa_lo" -> SclLevel = 0 /\ sSda' = sSda /\ s' = [s EXCEPT !.pc = "fa_rel"]
         [] s.pc = "fa_rel" ->
              /\ sSda' = "in"
              /\ s' = [s EXCEPT !.pc = IF s.cont = "listen" THEN "f_listen"
                                       ELSE IF s.cont = "reg" THEN "f_reg"
                                       ELSE "f_val"]
    /\ UNCHANGED <<fixedrest, registers, current_reg, distance_mm, sAlarm, heard>>

\* i2c_slave_read_byte up to its call of i2c_slave_send_ack
FixedReadByte ==
    /\ impl = "fixed"
    /\ s.pc \in {"frb_mode", "frb_hi", "frb_lo"}
    /\ CASE s.pc = "frb_mode" ->
              /\ sSda' = "in"
              /\ s' = [s EXCEPT !.pc = "frb_hi", !.i = 7, !.byte = 0]
              /\ heard' = heard
         [] s.pc = "frb_hi" ->
              /\ SclLevel = 1
              /\ sSda' = sSda
              /\ \E sd \in SdaLevels :
                    s' = [s EXCEPT !.pc = "frb_lo", !.byte = s.byte + sd * (2 ^ s.i)]
              /\ heard' = heard
         [] s.pc = "frb_lo" ->
              /\ SclLevel = 0
              /\ sSda' = sSda
              /\ IF s.i > 0
                 THEN /\ s' = [s EXCEPT !.pc = "frb_hi", !.i = s.i - 1]
                      /\ heard' = heard
                 ELSE /\ s' = [s EXCEPT !.pc = "fa_mode"]
                      /\ heard' = Hear(s.byte)
    /\ UNCHANGED <<fixedrest, registers, current_reg, distance_mm, sAlarm>>

\* what i2c_slave_write_byte returns after its looks at SDA, ack_received
\* being 0 when one of them found SDA low and 1 otherwise
SlaveWriteByteResult(ack_received) ==
    IF ack_received = 0 THEN 0 ELSE ack_received

\* i2c_slave_write_byte with bounded polls: eight bits, each set while SCL is
\* low; then up to I2C_ACK_ATTEMPTS looks at SDA while SCL is high; it
\* returns with SDA requested as an output
FixedWriteByte ==
    /\ impl = "fixed"
    /\ s.pc \in {"fw_mode", "fw_wlo", "fw_hi", "fw_lo", "fw_rel1", "fw_rel2",
                 "fw_a_lo", "fw_a_hi", "fw_a_low2", "fw_out"}
    /\ CASE s.pc = "fw_mode" -> sSda' = "hi" /\ s' = [s EXCEPT !.pc = "fw_wlo", !.i = 7]
         [] s.pc = "fw_wlo" ->
              /\ SclLevel = 0
              /\ sSda' = SetValue(sSda, Bit(s.value, s.i))
              /\ s' = [s EXCEPT !.pc = "fw_hi"]
         [] s.pc = "fw_hi" -> SclLevel = 1 /\ sSda' = sSda /\ s' = [s EXCEPT !.pc = "fw_lo"]
         [] s.pc = "fw_lo" ->
              /\ SclLevel = 0
              /\ sSda' = sSda
              /\ s' = [s EXCEPT !.pc = IF s.i > 0 THEN "fw_wlo" ELSE "fw_rel1",
                                !.i = s.i - 1]
         [] s.pc = "fw_rel1" -> sSda' = SetValue(sSda, 1) /\ s' = [s EXCEPT !.pc = "fw_rel2"]
         [] s.pc = "fw_rel2" -> sSda' = "in" /\ s' = [s EXCEPT !.pc = "fw_a_lo"]
         [] s.pc = "fw_a_lo" ->
              /\ SclLevel = 0
              /\ sSda' = sSda
              /\ s' = [s EXCEPT !.pc = "fw_a_hi", !.i = I2C_ACK_ATTEMPTS, !.ack = 1]
         [] s.pc = "fw_a_hi" ->
              /\ SclLevel = 1
              /\ sSda' = sSda
              /\ \E sd \in SdaLevels :
                    s' = IF sd = 0 THEN [s EXCEPT !.pc = "fw_out", !.ack = 0]
                         ELSE [s EXCEPT !.pc = "fw_a_low2"]
         [] s.pc = "fw_a_low2" ->
              /\ SclLevel = 0
              /\ sSda' = sSda
              /\ s' = [s EXCEPT !.pc = IF s.i > 1 THEN "fw_a_hi" ELSE "fw_out",
                                !.i = s.i - 1]
         [] s.pc = "fw_out" ->
              /\ sSda' = "hi"
              /\ s' = [s EXCEPT !.pc = "f_wdone",
                                !.write_result = SlaveWriteByteResult(s.ack)]
    /\ UNCHANGED <<fixedrest, registers, current_reg, distance_mm, sAlarm, heard>>

\* main of vl53l0x_fixed_slave.c between the calls of the slave primitives
FixedMain ==
    /\ impl = "fixed"
    /\ s.pc \in {"f_listen", "f_reg", "f_chk", "f_val", "f_wdone", "f_end"}
    /\ CASE s.pc = "f_listen" ->
              /\ IF s.rw = 0
                 THEN s' = [s EXCEPT !.pc = "frb_mode", !.cont = "reg"]
                 ELSE s' = [s EXCEPT !.pc = "fw_mode", !.value = registers[current_reg]]
              /\ UNCHANGED <<sSda, registers, current_reg, distance_mm>>
         [] s.pc = "f_reg" ->
              /\ current_reg' = s.byte
              /\ s' = [s EXCEPT !.pc = IF ReadsValue(s.byte) THEN "f_chk" ELSE "f_end"]
              /\ UNCHANGED <<sSda, registers, distance_mm>>
         [] s.pc = "f_chk" ->
              /\ s' = [s EXCEPT !.pc = IF SclLevel = 0 THEN "frb_mode" ELSE "f_end",
                                !.cont = IF SclLevel = 0 THEN "val" ELSE s.cont]
              /\ UNCHANGED <<sSda, registers, current_reg, distance_mm>>
         [] s.pc = "f_val" ->
              LET r == StoreValue(registers, current_reg, s.byte, distance_mm)
              IN  /\ registers' = r.registers
                  /\ distance_mm' = r.distance_mm
                  /\ s' = [s EXCEPT !.pc = "f_end"]
                  /\ UNCHANGED <<sSda, current_reg>>
         [] s.pc = "f_wdone" ->
              /\ current_reg' = (current_reg + 1) % REGISTER_SIZE
              /\ s' = [s EXCEPT !.pc = "f_end"]
              /\ UNCHANGED <<sSda, registers, distance_mm>>
         [] s.pc = "f_end" ->
              /\ sSda' = "in"
              /\ s' = [s EXCEPT !.pc = "f_top"]
              /\ UNCHANGED <<registers, current_reg, distance_mm>>
    /\ UNCHANGED <<fixedrest, sAlarm, heard>>

\* A bounded poll of the variant slave runs out.  The polls of
\* i2c_slave_listen, i2c_slave_send_ack and of the data bits of
\* i2c_slave_write_byte last longer than any pause of a running controller;
\* the polls around the acknowledgement in i2c_slave_write_byte
\* (I2C_ACK_TIMEOUT) are of the order of a bit period and may run out at any
\* time.
FixedTimeout ==
    /\ impl = "fixed"
    /\ CASE s.pc = "fl_idle" ->
              /\ BusQuiet /\ ~(1 \in SdaLevels /\ SclLevel = 1)
              /\ s' = [s EXCEPT !.pc = "fl_act"] /\ sSda' = sSda /\ heard' = heard
         [] s.pc = "fl_act" ->
              /\ BusQuiet /\ 1 \in SdaLevels /\ SclLevel = 1
              /\ s' = [s EXCEPT !.pc = "f_top"] /\ sSda' = sSda /\ heard' = heard
         [] s.pc = "fl_hi" ->
              /\ BusQuiet /\ SclLevel = 0
              /\ s' = [s EXCEPT !.pc = "f_top"] /\ sSda' = sSda /\ heard' = heard
         [] s.pc = "fl_lo" ->
              /\ BusQuiet /\ SclLevel = 1
              /\ sSda' = sSda
              /\ IF s.i > 0
                 THEN /\ s' = [s EXCEPT !.pc = "fl_hi", !.i = s.i - 1]
                      /\ heard' = heard
                 ELSE /\ heard' = Hear(s.address)
                      /\ IF ListenResult(s.address) < 0
                         THEN s' = [s EXCEPT !.pc = "f_top"]
                         ELSE s' = [s EXCEPT !.pc = "fa_mode", !.cont = "listen",
                                             !.rw = ListenResult(s.address)]
         [] s.pc = "fa_hi" ->
              /\ BusQuiet /\ SclLevel = 0
              /\ s' = [s EXCEPT !.pc = "fa_lo"] /\ sSda' = sSda /\ heard' = heard
         [] s.pc = "fa_lo" ->
              /\ BusQuiet /\ SclLevel = 1
              /\ s' = [s EXCEPT !.pc = "fa_rel"] /\ sSda' = sSda /\ heard' = heard
         [] s.pc \in {"fw_wlo", "fw_lo"} ->
              /\ BusQuiet /\ SclLevel = 1
              /\ s' = [s EXCEPT !.pc = "f_wdone", !.write_result = 0 - 1]
              /\ sSda' = sSda /\ heard' = heard
         [] s.pc = "fw_hi" ->
              /\ BusQuiet /\ SclLevel = 0
              /\ s' = [s EXCEPT !.pc = "f_wdone", !.write_result = 0 - 1]
              /\ sSda' = sSda /\ heard' = heard
         [] s.pc = "fw_a_lo" ->
              /\ SclLevel = 1
              /\ s' = [s EXCEPT !.pc = "f_wdone", !.write_result = 0 - 1]
              /\ sSda' = "hi" /\ heard' = heard
         [] s.pc = "fw_a_hi" ->
              /\ SclLevel = 0
              /\ s' = [s EXCEPT !.pc = "fw_a_low2"] /\ sSda' = sSda /\ heard' = heard
         [] s.pc = "fw_a_low2" ->
              /\ SclLevel = 1
              /\ s' = [s EXCEPT !.pc = IF s.i > 1 THEN "fw_a_hi" ELSE "fw_out",
                                !.i = s.i - 1]
              /\ sSda' = sSda /\ heard' = heard
         [] OTHER -> FALSE /\ UNCHANGED <<s, sSda, heard>>
    /\ sAlarm' = FALSE
    /\ UNCHANGED <<fixedrest, registers, current_reg, distance_mm>>

\* the state after i2c_init_slave and init_registers of the variant slave
FixedInit ==
    /\ impl = "fixed"
    /\ mSda = "hi"
    /\ mScl = "hi"
    /\ mslept = TRUE
    /\ m = [pc |-> "idle", fn |-> "write", byte |-> 0, i |-> 0, ack |-> 0, idx |-> 0,
            buffer |-> << >>, ret |-> 0, wret |-> -2, rret |-> -2]
    /\ cur = NoOp
    /\ log = << >>
    /\ wire = << >>
    /\ sSda = "in"
    /\ sScl = SclRequest
    /\ registers = SlaveInitRegisters
    /\ s = [pc |-> "f_top", last_sda |-> 1, last_scl |-> 1, address |-> 0, byte |-> 0,
            i |-> 0, rw |-> 0, ack |-> 0, cont |-> "listen", value |-> 0,
            write_result |-> 0]
    /\ current_reg = 0
    /\ distance_mm = INITIAL_DISTANCE_SLAVE
    /\ sAlarm = FALSE
    /\ heard = << >>
    /\ i2c_state = "I2C_IDLE"
    /\ device_state = "STATE_IDLE"
    /\ bit_count = 0
    /\ addr = 0
    /\ rw_flag = 0
    /\ current_register = 0
    /\ current_byte = 0
    /\ scl_prev = 1
    /\ sda_prev = 1
    /\ measurement_in_progress = 0
    /\ elapsed = 0
    /\ current_distance = INITIAL_DISTANCE_EMU

FixedNext ==
    \/ FixedCall \/ I2cStart \/ I2cWriteByte \/ I2cReadByte \/ I2cStop \/ MasterReturn
    \/ FixedListen \/ FixedSendAck \/ FixedReadByte \/ FixedWriteByte \/ FixedMain
    \/ FixedTimeout

SpecFixed == FixedInit /\ [][FixedNext]_vars

\* ------------------------------------------- writes to the register file
\* The controller and the two responders of the main specification, with
\* operations that aim at the identification registers.
RegsOps == 2

RegsMenu ==
    {Write(VL53L0X_ADDR, <<REG_IDENTIFICATION_MODEL_ID, 5>>),
     Write(VL53L0X_ADDR, <<REG_IDENTIFICATION_REVISION_ID - 1, 5, 6>>),
     Write(VL53L0X_ADDR, <<0, 1>>),
     ReadReg(VL53L0X_ADDR, REG_IDENTIFICATION_MODEL_ID, 1),
     Read(VL53L0X_ADDR, 1),
     Read(20, 1)}

\* the controller program issues its next operation
RegsCall == MasterCallOf(RegsMenu, RegsOps)

RegsNext ==
    \/ RegsCall \/ I2cStart \/ I2cWriteByte \/ I2cReadByte \/ I2cStop \/ MasterReturn
    \/ WaitForStart \/ SlaveListen \/ SlaveSendAck \/ SlaveReadByte
    \/ SlaveWriteByteFixed \/ SlaveMain
    \/ EmuLoop

SpecRegs == Init /\ [][RegsNext]_vars

\* ------------------------------------------- data writes at the emulator
\* What i2c_slave_loop does with a write frame of one data byte once it has
\* taken the frame as addressed to it, and check_measurement as time passes.
\* log keeps the frames received, each with the measurement state it found.
StoreOps == 3
StoreRegs == {REG_SYSRANGE_START, 66}
StoreValues == {0, 1, 3, 255}

\* i2c_slave_loop over a write frame (register byte reg, data byte value):
\* the address match sets STATE_ADDR_MATCHED, the register byte sets the
\* pointer and STATE_REG_SELECTED, the data byte is handled in I2C_DATA_BITS
StoreWrite ==
    /\ impl = "emu"
    /\ Len(log) < StoreOps
    /\ \E reg \in StoreRegs, value \in StoreValues :
          LET E == EmuStore([EmuState EXCEPT !.device_state = "STATE_REG_SELECTED",
                                             !.rw_flag = 0,
                                             !.current_register = reg,
                                             !.current_byte = value])
          IN  /\ registers' = E.registers
              /\ device_state' = E.device_state
              /\ measurement_in_progress' = E.mip
              /\ elapsed' = E.elapsed
              /\ current_register' = E.current_register
              /\ current_byte' = E.current_byte
              /\ rw_flag' = E.rw_flag
              /\ log' = Append(log, [reg |-> reg, value |-> value,
                                     mip |-> measurement_in_progress,
                                     elapsed |-> elapsed])
    /\ UNCHANGED <<impl, mSda, mScl, mslept, m, cur, wire, sSda, sScl, svars,
                   i2c_state, bit_count, addr, scl_prev, sda_prev, current_distance>>

StoreNext == StoreWrite \/ WalkEmuCheck

StoreInit == Init /\ impl = "emu"

SpecStore == StoreInit /\ [][StoreNext]_vars

\* ---------------------------------------------- shutdown of the polled slave
\* The polled slave with its termination flag: handle_signal clears running
\* at any moment, and main looks at it at the top of its loop only, that is
\* before each call of wait_for_start.  The flag is kept with main's locals
\* in s.  The controller sends one operation and may be stopped in the
\* middle of it.
ShutOps == 1
ShutCall == MasterCallOf(FaultMenu, ShutOps)

\* handle_signal of vl53l0x_slave.c
SlaveSignal ==
    /\ impl = "slave"
    /\ s.pc # "exit"
    /\ s.running = 1
    /\ s' = [s EXCEPT !.running = 0]
    /\ UNCHANGED <<impl, mstate, sSda, sScl, registers, current_reg, distance_mm,
                   sAlarm, heard, emuonly>>

\* while (running) fails, at the top of the loop or after wait_for_start has
\* run out; then i2c_cleanup and return 0
SlaveExit ==
    /\ impl = "slave"
    /\ s.pc = "wfs"
    /\ s.running = 0
    /\ s' = [s EXCEPT !.pc = "exit"]
    /\ sSda' = "in"
    /\ sScl' = "in"
    /\ sAlarm' = FALSE
    /\ UNCHANGED <<impl, mstate, registers, current_reg, distance_mm, heard, emuonly>>

ShutResponder ==
    \/ WaitForStart \/ SlaveListen \/ SlaveSendAck \/ SlaveReadByte
    \/ SlaveWriteByteFixed \/ SlaveMain \/ SlaveTimeout \/ SlaveExit

ShutController ==
    \/ ShutCall \/ I2cStart \/ I2cWriteByte \/ I2cReadByte \/ I2cStop \/ MasterReturn
    \/ MasterHalt

ShutNext ==
    \/ ShutCall \/ I2cStart \/ I2cWriteByte \/ I2cReadByte \/ I2cStop \/ MasterReturn
    \/ MasterHalt
    \/ WaitForStart \/ SlaveListen \/ SlaveSendAck \/ SlaveReadByte
    \/ SlaveWriteByteFixed \/ SlaveMain \/ SlaveTimeout \/ SlaveExit
    \/ SlaveSignal

ShutInit ==
    /\ impl = "slave"
    /\ mSda = "hi"
    /\ mScl = "hi"
    /\ mslept = TRUE
    /\ m = [pc |-> "idle", fn |-> "write", byte |-> 0, i |-> 0, ack |-> 0, idx |-> 0,
            buffer |-> << >>, ret |-> 0, wret |-> -2, rret |-> -2]
    /\ cur = NoOp
    /\ log = << >>
    /\ wire = << >>
    /\ sSda = "in"
    /\ sScl = SclRequest
    /\ registers = SlaveInitRegisters
    /\ s = [pc |-> "wfs", last_sda |-> 1, last_scl |-> 1, address |-> 0, byte |-> 0,
            i |-> 0, rw |-> 0, ack |-> 0, cont |-> "listen", value |-> 0,
            running |-> 1]
    /\ current_reg = 0
    /\ distance_mm = INITIAL_DISTANCE_SLAVE
    /\ sAlarm = FALSE
    /\ heard = << >>
    /\ i2c_state = "I2C_IDLE"
    /\ device_state = "STATE_IDLE"
    /\ bit_count = 0
    /\ addr = 0
    /\ rw_flag = 0
    /\ current_register = 0
    /\ current_byte = 0
    /\ scl_prev = 1
    /\ sda_prev = 1
    /\ measurement_in_progress = 0
    /\ elapsed = 0
    /\ current_distance = INITIAL_DISTANCE_EMU

\* Both programs run: each takes a step whenever it has one; the signal
\* comes when it comes.  wait_for_start gives up after 100000 polls, so a
\* slave that stays in it with the flag cleared gets to the test of the loop.
SpecShutdown ==
    /\ ShutInit /\ [][ShutNext]_vars
    /\ WF_vars(ShutResponder) /\ WF_vars(ShutController) /\ WF_vars(SlaveExit)

\* ------------------------------------ acknowledge read by repeated samples
\* The older library's i2c_write_byte, which keeps SDA an output while it
\* sends and reads the acknowledge bit in master_read_ack: SDA becomes an
\* input for the ninth clock and is sampled up to ReadAckAttempts times while
\* SCL is high.  The attempt counter is kept in m.i.
SampledOps == 2
ReadAckAttempts == 10
SampledMenu ==
    {Write(VL53L0X_ADDR, <<0, 1>>), Write(VL53L0X_ADDR, <<66, 165>>), Write(42, <<192>>)}
SampledCall == MasterCallOf(SampledMenu, SampledOps)

\* a faulty loop, which takes the bit for acknowledged when the attempts run out
NextSampleLenient(attempt, v) ==
    IF v = 0 THEN [pc |-> "ra_hold", ack |-> 0]
    ELSE IF attempt + 1 < ReadAckAttempts THEN [pc |-> "ra_sample", ack |-> 1]
    ELSE [pc |-> "ra_hold", ack |-> 0]

\* the loop of master_read_ack after one more sample v, attempt samples
\* having been taken before
NextSample(attempt, v) ==
    IF v = 0 THEN [pc |-> "ra_hold", ack |-> 0]
    ELSE IF attempt + 1 < ReadAckAttempts THEN [pc |-> "ra_sample", ack |-> 1]
    ELSE [pc |-> "ra_hold", ack |-> 1]

\* i2c_write_byte with master_read_ack, and the caller's loop around it
I2cWriteByteSampled ==
    /\ m.pc \in {"wb_mode", "wb_bit", "wb_hi", "wb_lo", "wb_in", "ra_req_in", "ra_hi",
                 "ra_sample", "ra_hold", "ra_req_out", "ra_err", "wb_ret"}
    /\ CASE m.pc = "wb_mode" ->
              MStep(mSda, mScl, FALSE, [m EXCEPT !.pc = "wb_bit", !.i = 7])
         [] m.pc = "wb_bit" ->
              MStep(SetValue(mSda, Bit(m.byte, m.i)), mScl, TRUE, [m EXCEPT !.pc = "wb_hi"])
         [] m.pc = "wb_hi" ->
              MStep(mSda, "hi", TRUE, [m EXCEPT !.pc = "wb_lo"])
         [] m.pc = "wb_lo" ->
              MStep(mSda, "lo", TRUE,
                    [m EXCEPT !.pc = IF m.i > 0 THEN "wb_bit" ELSE "wb_in",
                              !.i = m.i - 1])
         [] m.pc = "wb_in" ->
              MStep(SetValue(mSda, 1), mScl, TRUE, [m EXCEPT !.pc = "ra_req_in"])
         [] m.pc = "ra_req_in" ->
              \E ok \in BOOLEAN :
                  MStep("in", mScl, FALSE,
                        [m EXCEPT !.pc = IF ok THEN "ra_hi" ELSE "ra_err", !.ack = 1])
         [] m.pc = "ra_hi" ->
              MStep(mSda, "hi", FALSE, [m EXCEPT !.pc = "ra_sample", !.i = 0])
         [] m.pc = "ra_sample" ->
              \E v \in SdaLevels :
                  LET n == NextSample(m.i, v)
                  IN  MStep(mSda, mScl, FALSE,
                            [m EXCEPT !.pc = n.pc, !.ack = n.ack, !.i = m.i + 1])
         [] m.pc = "ra_hold" ->
              MStep(mSda, "lo", TRUE, [m EXCEPT !.pc = "ra_req_out"])
         [] m.pc = "ra_req_out" ->
              \E ok \in BOOLEAN :
                  MStep(IF ok THEN "hi" ELSE "in", mScl, FALSE,
                        [m EXCEPT !.pc = IF ok THEN "wb_ret" ELSE "ra_err"])
         [] m.pc \in {"ra_err", "wb_ret"} ->
              LET r == IF m.pc = "wb_ret" /\ m.ack = 0 THEN 0 ELSE 0 - 1
                  w == MasterWriteNext(r, m.idx, Len(cur.data))
              IN  MStep(mSda, mScl, FALSE,
                        [m EXCEPT !.pc = w.pc, !.ret = w.ret,
                                  !.byte = IF w.pc = "wb_mode"
                                           THEN cur.data[m.idx + 1] ELSE m.byte,
                                  !.idx = IF w.pc = "wb_mode" THEN m.idx + 1 ELSE m.idx])
    /\ wire' = IF m.pc \in {"ra_err", "wb_ret"}
               THEN Append(wire, <<"W", m.byte,
                                   IF m.pc = "wb_ret" /\ m.ack = 0 THEN 0 ELSE 1>>)
               ELSE wire
    /\ UNCHANGED <<cur, log, munch>>

SampledNext ==
    \/ SampledCall \/ I2cStart \/ I2cWriteByteSampled \/ I2cStop \/ MasterReturn
    \/ WaitForStart \/ SlaveListen \/ SlaveSendAck \/ SlaveReadByte \/ SlaveMain
    \/ EmuLoop

SpecSampled == Init /\ [][SampledNext]_vars

\* -------------------------------------------------- the controller program
\* main of the measurement program of the controller, on its own.  Here m
\* holds the locals of main; a call of vl53l0x_write_register or
\* vl53l0x_read_register is one step, and what it returns is whatever the
\* bus makes of it.
MAX_MEASUREMENTS == 500
MAX_CONSECUTIVE_FAILURES == 2
\* what a register call returns
CallResults == {0, 0 - 1}
\* what a read of register 0x13 delivers: the value the emulator starts
\* with, and data-ready
StatusValues == {0, 7}

\* the loop of the older controller program, which has no budget
LoopConditionUnbudgeted(running, cycle) == running = 1
\* while (running && cycle < MAX_MEASUREMENTS)
LoopCondition(running, cycle) == running = 1 /\ cycle < MAX_MEASUREMENTS

\* the number of register calls that have failed in a row, after one more
\* has returned r; counted up to one more than MAX_CONSECUTIVE_FAILURES
FailedInARow(f, r) ==
    IF r = 0 THEN 0
    ELSE IF f <= MAX_CONSECUTIVE_FAILURES THEN f + 1 ELSE f

mainrest == <<impl, mslept, cur, log, wire, sSda, sScl, registers, svars, evars>>

\* handle_signal
MainSignal ==
    /\ m.pc # "exit"
    /\ m.running = 1
    /\ m' = [m EXCEPT !.running = 0]
    /\ UNCHANGED <<mSda, mScl, mainrest>>

\* the two identification reads before the loop; a failure is printed only
MainIdentify ==
    /\ m.pc \in {"id_model", "id_rev"}
    /\ \E r \in CallResults :
           m' = [m EXCEPT !.pc = IF m.pc = "id_model" THEN "id_rev" ELSE "loop",
                          !.failed = FailedInARow(m.failed, r)]
    /\ UNCHANGED <<mSda, mScl, mainrest>>

\* the test of the loop, and cycle++
MainLoop ==
    /\ m.pc = "loop"
    /\ m' = IF LoopCondition(m.running, m.cycle)
            THEN [m EXCEPT !.pc = "start", !.cycle = m.cycle + 1,
                           !.interrupt_status = 0]
            ELSE [m EXCEPT !.pc = "cleanup"]
    /\ UNCHANGED <<mSda, mScl, mainrest>>

\* vl53l0x_write_register(SYSRANGE_START, 0x01); on failure sleep and continue
MainStart ==
    /\ m.pc = "start"
    /\ \E r \in CallResults :
           m' = [m EXCEPT !.pc = IF r < 0 THEN "loop" ELSE "status",
                          !.failed = FailedInARow(m.failed, r)]
    /\ UNCHANGED <<mSda, mScl, mainrest>>

\* usleep(MEASUREMENT_DELAY_US), then one read of the interrupt status; on
\* failure sleep and continue
MainStatus ==
    /\ m.pc = "status"
    /\ \E r \in CallResults, v \in StatusValues :
           m' = [m EXCEPT !.pc = IF r < 0 THEN "loop" ELSE "range",
                          !.interrupt_status = IF r < 0 THEN 0 ELSE v,
                          !.failed = FailedInARow(m.failed, r)]
    /\ UNCHANGED <<mSda, mScl, mainrest>>

\* the read of the range status; a failure is printed only
MainRange ==
    /\ m.pc = "range"
    /\ \E r \in CallResults :
           m' = [m EXCEPT !.pc = "dist_hi",
                          !.failed = FailedInARow(m.failed, r)]
    /\ UNCHANGED <<mSda, mScl, mainrest>>

\* vl53l0x_read_distance: the read of 0x1E, then the read of 0x1F; after
\* both successful_measurements++; then usleep and the next cycle
MainDistance ==
    /\ m.pc \in {"dist_hi", "dist_lo"}
    /\ \E r \in CallResults :
           m' = [m EXCEPT !.pc = IF r = 0 /\ m.pc = "dist_hi" THEN "dist_lo" ELSE "loop",
                          !.successful_measurements =
                              IF r = 0 /\ m.pc = "dist_lo"
                              THEN m.successful_measurements + 1
                              ELSE m.successful_measurements,
                          !.failed = FailedInARow(m.failed, r)]
    /\ UNCHANGED <<mSda, mScl, mainrest>>

\* i2c_cleanup and return 0
MainCleanup ==
    /\ m.pc = "cleanup"
    /\ mSda' = "in"
    /\ mScl' = "in"
    /\ m' = [m EXCEPT !.pc = "exit", !.chip = "closed", !.status = 0]
    /\ UNCHANGED mainrest

MainInit ==
    /\ impl = "slave"
    /\ mSda = "hi"
    /\ mScl = "hi"
    /\ mslept = TRUE
    /\ m = [pc |-> "id_model", running |-> 1, cycle |-> 0, successful_measurements |-> 0,
            interrupt_status |-> 0, failed |-> 0, chip |-> "open", status |-> 0 - 1]
    /\ cur = NoOp
    /\ log = << >>
    /\ wire = << >>
    /\ sSda = "in"
    /\ sScl = SclRequest
    /\ registers = SlaveInitRegisters
    /\ s = [pc |-> "wfs", last_sda |-> 1, last_scl |-> 1, address |-> 0, byte |-> 0,
            i |-> 0, rw |-> 0, ack |-> 0, cont |-> "listen", value |-> 0]
    /\ current_reg = 0
    /\ distance_mm = INITIAL_DISTANCE_SLAVE
    /\ sAlarm = FALSE
    /\ heard = << >>
    /\ i2c_state = "I2C_IDLE"
    /\ device_state = "STATE_IDLE"
    /\ bit_count = 0
    /\ addr = 0
    /\ rw_flag = 0
    /\ current_register = 0
    /\ current_byte = 0
    /\ scl_prev = 1
    /\ sda_prev = 1
    /\ measurement_in_progress = 0
    /\ elapsed = 0
    /\ current_distance = INITIAL_DISTANCE_EMU

MainNext ==
    \/ MainSignal \/ MainIdentify \/ MainLoop \/ MainStart \/ MainStatus
    \/ MainRange \/ MainDistance \/ MainCleanup

\* main runs: it takes its next step whenever it has one
SpecMain == MainInit /\ [][MainNext]_vars /\ WF_vars(MainNext)

\* ------------------------------------------ register reads at the emulator
\* What i2c_slave_loop puts on SDA when it transmits register bytes: a read
\* frame whose address byte it has taken as addressed to it, clocked by
\* i2c_master_read.
SendOps == 2
SendRegs == {REG_SYSRANGE_START, REG_RESULT_RANGE_VAL, REG_IDENTIFICATION_MODEL_ID}
SendCounts == {1, 2}

\* The address phase of a read frame is over.  i2c_slave_loop, with its
\* register pointer at reg, has handled the falling edge in I2C_ADDR_ACK;
\* i2c_master_read, asked for n bytes, has had its address byte acknowledged
\* and enters i2c_read_byte.
SendSelect ==
    /\ impl = "emu"
    /\ m.pc = "idle"
    /\ i2c_state = "I2C_IDLE"
    /\ Len(log) < SendOps
    /\ \E reg \in SendRegs, n \in SendCounts :
          LET E == OnFalling([EmuState EXCEPT !.i2c_state = "I2C_ADDR_ACK",
                                              !.device_state = "STATE_ADDR_MATCHED",
                                              !.addr = VL53L0X_ADDR,
                                              !.rw_flag = 1,
                                              !.bit_count = 8,
                                              !.current_register = reg], 1)
              d == MasterReadNext(0, 0, 0, n)
          IN  /\ cur' = Read(VL53L0X_ADDR, n)
              /\ m' = [m EXCEPT !.pc = d.pc, !.ret = d.ret, !.ack = d.ack,
                                !.fn = "read", !.byte = VL53L0X_ADDR * 2 + 1,
                                !.idx = 0, !.buffer = << >>,
                                !.wret = -2, !.rret = -2]
              /\ mSda' = "hi"
              /\ mScl' = "lo"
              /\ mslept' = FALSE
              /\ wire' = << <<"S", 0, 0>>, <<"W", VL53L0X_ADDR * 2 + 1, 0>> >>
              /\ sSda' = E.sda
              /\ i2c_state' = E.i2c_state
              /\ device_state' = E.device_state
              /\ bit_count' = E.bit_count
              /\ addr' = E.addr
              /\ rw_flag' = E.rw_flag
              /\ current_register' = E.current_register
              /\ scl_prev' = 0
              /\ sda_prev' = 0
    /\ UNCHANGED <<impl, log, sScl, registers, svars, current_byte,
                   measurement_in_progress, elapsed, current_distance>>

SendNext == SendSelect \/ I2cReadByte \/ I2cStop \/ MasterReturn \/ EmuLoop

SendInit == Init /\ impl = "emu"

SpecSend == SendInit /\ [][SendNext]_vars

\* ----------------------------------------------------- detection of START
\* wait_for_start on its own, polling lines that an outside controller
\* moves: the function of vl53l0x_slave.c (impl = "slave") and the one of the
\* variant slave, src/unnamed/part_001 (impl = "fixed").  s holds the locals
\* of the call, heard the samples <<sda, scl>> it has taken.
MaxSamples == 4

\* the locals of wait_for_start before its first sample
WfsLocals(which) ==
    IF which = "slave"
    THEN [pc |-> "wfs", last_sda |-> 1, last_scl |-> 1, timeout |-> 0, idle_detected |-> 0]
    ELSE [pc |-> "wfs", last_sda |-> 0 - 1, last_scl |-> 0 - 1, timeout |-> 0,
          idle_detected |-> 0]

\* the test of one iteration of the loop of wait_for_start, vl53l0x_slave.c
StartSeen(last_sda, last_scl, sda, scl, idle) ==
    last_scl = 1 /\ scl = 1 /\ last_sda = 1 /\ sda = 0

\* the two tests of one iteration of the loop of wait_for_start, part_001;
\* idle is idle_detected after this iteration's update
StartSeenVariant(last_sda, last_scl, sda, scl, idle) ==
    \/ idle = 1 /\ scl = 1 /\ last_sda = 1 /\ sda = 0
    \/ last_scl = 0 /\ scl = 1 /\ last_sda = 1 /\ sda = 0

\* one iteration of the loop of wait_for_start
WfsPoll ==
    /\ s.pc = "wfs"
    /\ s.timeout < MaxSamples
    /\ \E sda \in SdaLevels :
        LET scl == SclLevel
            idle == IF impl = "fixed" /\ sda = 1 /\ scl = 1 THEN 1 ELSE s.idle_detected
            seen == IF impl = "slave"
                    THEN StartSeen(s.last_sda, s.last_scl, sda, scl, idle)
                    ELSE StartSeenVariant(s.last_sda, s.last_scl, sda, scl, idle)
        IN  /\ heard' = Append(heard, <<sda, scl>>)
            /\ s' = IF seen
                    THEN [s EXCEPT !.pc = "start", !.idle_detected = idle]
                    ELSE [s EXCEPT !.last_sda = sda, !.last_scl = scl,
                                   !.timeout = s.timeout + 1, !.idle_detected = idle]
    /\ UNCHANGED <<impl, mstate, sSda, sScl, registers, current_reg, distance_mm,
                   sAlarm, emuonly>>

\* the loop of wait_for_start runs out: return -1
WfsTimeout ==
    /\ s.pc = "wfs"
    /\ s.timeout = MaxSamples
    /\ s' = [s EXCEPT !.pc = "timeout"]
    /\ UNCHANGED <<impl, mstate, sSda, sScl, registers, current_reg, distance_mm,
                   sAlarm, heard, emuonly>>

\* main calls wait_for_start again
WfsCall ==
    /\ s.pc \in {"start", "timeout"}
    /\ s' = WfsLocals(impl)
    /\ heard' = << >>
    /\ UNCHANGED <<impl, mstate, sSda, sScl, registers, current_reg, distance_mm,
                   sAlarm, emuonly>>

\* the levels wait_for_start reads from the two lines change between samples
BusChange ==
    /\ s.pc = "wfs"
    /\ \E sda \in {"lo", "hi"}, scl \in {"lo", "hi"} :
        /\ <<sda, scl>> # <<mSda, mScl>>
        /\ mSda' = sda
        /\ mScl' = scl
    /\ UNCHANGED <<impl, mslept, m, cur, log, wire, sSda, sScl, registers, svars, evars>>

DetectNext == WfsPoll \/ WfsTimeout \/ WfsCall \/ BusChange

\* the responder enters wait_for_start with the lines at any levels
DetectInit ==
    /\ impl \in {"slave", "fixed"}
    /\ mSda \in {"lo", "hi"}
    /\ mScl \in {"lo", "hi"}
    /\ mslept = TRUE
    /\ m = [pc |-> "idle", fn |-> "write", byte |-> 0, i |-> 0, ack |-> 0, idx |-> 0,
            buffer |-> << >>, ret |-> 0, wret |-> -2, rret |-> -2]
    /\ cur = NoOp
    /\ log = << >>
    /\ wire = << >>
    /\ sSda = "in"
    /\ sScl = SclRequest
    /\ registers = SlaveInitRegisters
    /\ s = WfsLocals(impl)
    /\ current_reg = 0
    /\ distance_mm = INITIAL_DISTANCE_SLAVE
    /\ sAlarm = FALSE
    /\ heard = << >>
    /\ i2c_state = "I2C_IDLE"
    /\ device_state = "STATE_IDLE"
    /\ bit_count = 0
    /\ addr = 0
    /\ rw_flag = 0
    /\ current_register = 0
    /\ current_byte = 0
    /\ scl_prev = 1
    /\ sda_prev = 1
    /\ measurement_in_progress = 0
    /\ elapsed = 0
    /\ current_distance = INITIAL_DISTANCE_EMU

SpecDetect == DetectInit /\ [][DetectNext]_vars

\* ------------------------------------------------- reads by the controller
\* i2c_master_read for the lengths 0, 1 and 2 against the polled slave, with
\* sda_set_mode free to fail inside i2c_read_byte.  wire also records a byte
\* that i2c_read_byte returned without clocking it in ("F") and one it
\* returned after eight clocks, with no acknowledge clock ("R8").
ReadOps == 2
ReadLengths == 0..2
ReadMenu == {Read(VL53L0X_ADDR, n) : n \in ReadLengths}
ReadCall == MasterCallOf(ReadMenu, ReadOps)

\* what i2c_read_byte returns when its first sda_set_mode fails
READ_BYTE_FAILED == 255

\* i2c_read_byte, and the loop of i2c_master_read around it.  A failed
\* sda_set_mode has released the line and left it without a request.
I2cReadByteChecked ==
    /\ m.pc \in {"rb_in", "rb_hi", "rb_sample", "rb_lo", "rb_out", "rb_ack",
                 "rb_ackhi", "rb_acklo"}
    /\ CASE m.pc = "rb_in" ->
              \E ok \in BOOLEAN :
                  IF ok
                  THEN /\ MStep("in", mScl, FALSE,
                                [m EXCEPT !.pc = "rb_hi", !.byte = 0, !.i = 7])
                       /\ wire' = wire
                  ELSE LET d == MasterReadNext(0, Len(m.buffer) + 1, m.ack, cur.n)
                       IN  /\ MStep("in", mScl, FALSE,
                                     [m EXCEPT !.pc = d.pc, !.ret = d.ret, !.ack = d.ack,
                                               !.byte = READ_BYTE_FAILED,
                                               !.buffer = Append(m.buffer, READ_BYTE_FAILED)])
                           /\ wire' = Append(wire, <<"F", READ_BYTE_FAILED, m.ack>>)
         [] m.pc = "rb_hi" ->
              /\ MStep(mSda, "hi", TRUE, [m EXCEPT !.pc = "rb_sample"])
              /\ wire' = wire
         [] m.pc = "rb_sample" ->
              /\ \E v \in SdaLevels :
                    MStep(mSda, mScl, FALSE,
                          [m EXCEPT !.pc = "rb_lo", !.byte = m.byte + v * (2 ^ m.i)])
              /\ wire' = wire
         [] m.pc = "rb_lo" ->
              /\ MStep(mSda, "lo", TRUE,
                       [m EXCEPT !.pc = IF m.i > 0 THEN "rb_hi" ELSE "rb_out",
                                 !.i = m.i - 1])
              /\ wire' = wire
         [] m.pc = "rb_out" ->
              \E ok \in BOOLEAN :
                  IF ok
                  THEN /\ MStep("hi", mScl, FALSE, [m EXCEPT !.pc = "rb_ack"])
                       /\ wire' = wire
                  ELSE LET d == MasterReadNext(0, Len(m.buffer) + 1, m.ack, cur.n)
                       IN  /\ MStep("in", mScl, FALSE,
                                     [m EXCEPT !.pc = d.pc, !.ret = d.ret, !.ack = d.ack,
                                               !.buffer = Append(m.buffer, m.byte)])
                           /\ wire' = Append(wire, <<"R8", m.byte, m.ack>>)
         [] m.pc = "rb_ack" ->
              /\ MStep(SetValue(mSda, m.ack), mScl, FALSE, [m EXCEPT !.pc = "rb_ackhi"])
              /\ wire' = wire
         [] m.pc = "rb_ackhi" ->
              /\ MStep(mSda, "hi", TRUE, [m EXCEPT !.pc = "rb_acklo"])
              /\ wire' = wire
         [] m.pc = "rb_acklo" ->
              LET d == MasterReadNext(0, Len(m.buffer) + 1, m.ack, cur.n)
              IN  /\ MStep(mSda, "lo", TRUE,
                            [m EXCEPT !.pc = d.pc, !.ret = d.ret, !.ack = d.ack,
                                      !.buffer = Append(m.buffer, m.byte)])
                  /\ wire' = Append(wire, <<"R", m.byte, m.ack>>)
    /\ UNCHANGED <<cur, log, munch>>

ReadNext ==
    \/ ReadCall \/ I2cStart \/ I2cWriteByte \/ I2cReadByteChecked \/ I2cStop
    \/ MasterReturn
    \/ WaitForStart \/ SlaveListen \/ SlaveSendAck \/ SlaveWriteByteFixed \/ SlaveMain

ReadInit == Init /\ impl = "slave"

SpecRead == ReadInit /\ [][ReadNext]_vars

\* ------------------------------------------------------------ bus recovery
\* i2c_bus_recovery (src/unnamed/part_002), called by a controller program
\* between two operations, for instance one started after an earlier one was
\* cut off in the middle of a transfer and left the polled slave holding SDA.
\* While it runs, m.ret is what sda_set_mode returned, m.i the loop variable
\* i, m.idx the number of SCL pulses made and m.ack the last value read from
\* SDA.
RecoverOps == 2
RECOVERY_PULSES == 9

\* what gpiod_line_get_value returns for a line that is not requested
GetValueFailed == 0 - 1

\* the loop of a recovery that does not look at SDA
AfterPulseUnchecked(i, v) ==
    IF i + 1 < RECOVERY_PULSES THEN [pc |-> "br_lo", i |-> i + 1]
    ELSE [pc |-> "stop_sda0", i |-> i + 1]

\* the loop of i2c_bus_recovery after pulse i + 1, v the value read from SDA
AfterPulse(i, v) ==
    IF v = 1 THEN [pc |-> "stop_sda0", i |-> i]
    ELSE IF i + 1 < RECOVERY_PULSES THEN [pc |-> "br_lo", i |-> i + 1]
    ELSE [pc |-> "stop_sda0", i |-> i + 1]

\* the controller program calls i2c_bus_recovery
RecoverCall ==
    /\ m.pc = "idle"
    /\ Len(log) < RecoverOps
    /\ cur' = [kind |-> "recover", addr |-> 0, data |-> << >>, n |-> 0]
    /\ MStep(mSda, mScl, FALSE,
             [m EXCEPT !.pc = "br_mode", !.fn = "recovery", !.byte = 0, !.i = 0,
                       !.idx = 0, !.ack = 0, !.buffer = << >>, !.ret = 0,
                       !.wret = -2, !.rret = -2])
    /\ wire' = << >>
    /\ UNCHANGED <<log, munch>>

\* i2c_bus_recovery up to its call of i2c_stop
I2cBusRecovery ==
    /\ m.pc \in {"br_mode", "br_lo", "br_hi", "br_check"}
    /\ CASE m.pc = "br_mode" ->
              \E ok \in BOOLEAN :
                  MStep("in", mScl, FALSE,
                        [m EXCEPT !.pc = "br_lo", !.ret = IF ok THEN 0 ELSE 0 - 1])
         [] m.pc = "br_lo" ->
              MStep(mSda, "lo", TRUE, [m EXCEPT !.pc = "br_hi"])
         [] m.pc = "br_hi" ->
              MStep(mSda, "hi", TRUE, [m EXCEPT !.pc = "br_check", !.idx = m.idx + 1])
         [] m.pc = "br_check" ->
              \E v \in (IF m.ret = 0 THEN SdaLevels ELSE {GetValueFailed}) :
                  LET n == AfterPulse(m.i, v)
                  IN  MStep(mSda, mScl, FALSE,
                            [m EXCEPT !.pc = n.pc, !.i = n.i, !.ack = v])
    /\ wire' = wire
    /\ UNCHANGED <<cur, log, munch>>

RecoverOpCall == MasterCallOf(FaultMenu, RecoverOps)

RecoverNext ==
    \/ RecoverOpCall \/ RecoverCall \/ I2cBusRecovery
    \/ I2cStart \/ I2cWriteByte \/ I2cReadByte \/ I2cStop \/ MasterReturn
    \/ MasterAbort
    \/ WaitForStart \/ SlaveListen \/ SlaveSendAck \/ SlaveReadByte
    \/ SlaveWriteByteFixed \/ SlaveMain \/ SlaveTimeout

RecoverInit == Init /\ impl = "slave"

SpecRecover == RecoverInit /\ [][RecoverNext]_vars

\* ------------------------------------------- variant slave, controller stalls
\* The variant slave with a controller that may be stopped for good in the
\* middle of a transfer: the bounded polls of i2c_slave_write_byte run out
\* and it returns -1 to main.
StallNext == FixedNext \/ MasterHalt

SpecStall == FixedInit /\ [][StallNext]_vars

\* ------------------------------------- a measurement ends during a frame
\* The emulator with a measurement running while the controller addresses
\* it.  The measurement is started by a write of 0x01 to register 0x00 taken
\* as received; the controller then pauses and issues a read whose address
\* byte the emulator matches.
TickOps == 2
\* pauses of the controller program between two calls, in ms
TickDelays == {17, 40}
TickMenu == {Read(20, 1)}
TickCall == MasterCallOf(TickMenu, TickOps)

\* i2c_slave_loop: 0x01 has been written to register 0x00 between two
\* operations of the controller
TickStart ==
    /\ impl = "emu"
    /\ m.pc = "idle"
    /\ i2c_state = "I2C_IDLE"
    /\ measurement_in_progress = 0
    /\ device_state \in {"STATE_IDLE", "STATE_REG_SELECTED"}
    /\ LET E == StartMeasurement(EmuState)
       IN  /\ registers' = E.registers
           /\ device_state' = E.device_state
           /\ measurement_in_progress' = E.mip
           /\ elapsed' = E.elapsed
    /\ UNCHANGED <<walkrest, distance_mm, current_distance>>

\* the controller program pauses between two calls while the measurement runs
TickWait ==
    /\ impl = "emu"
    /\ m.pc = "idle"
    /\ measurement_in_progress = 1
    /\ elapsed < CONVERSION_MS
    /\ \E dt \in TickDelays :
          elapsed' = IF elapsed + dt > CONVERSION_MS THEN CONVERSION_MS ELSE elapsed + dt
    /\ UNCHANGED <<walkrest, distance_mm, current_distance, registers, device_state,
                   measurement_in_progress>>

TickNext ==
    \/ TickCall \/ TickStart \/ TickWait
    \/ I2cStart \/ I2cWriteByte \/ I2cStop \/ MasterReturn
    \/ EmuLoop

TickInit == Init /\ impl = "emu"

SpecTick == TickInit /\ [][TickNext]_vars

\* ================================================================== claims
\* the register file a responder starts with
InitRegs == IF impl = "slave" THEN SlaveInitRegisters ELSE EmuInitRegisters
\* the register pointer of the running responder
Ptr == IF impl = "slave" THEN current_reg ELSE current_register
\* indices with side effects
SpecialIndices == {0, 19, 20, 30, 31}
\* the bytes a logged operation handed to i2c_master_write
Submitted(e) == <<(e.op.addr * 2) % 256>> \o e.op.data

\* C1 (register round-trip): when the controller has written (i, v), i not a
\* special index, and later a pointer write of i followed by a one-byte read
\* returns a byte, with no other write to i in between, that byte is v.
C1_RegisterRoundTrip ==
    \A j \in 1..Len(log), k \in 1..Len(log) :
        (/\ j < k
         /\ log[j].op.kind = "write" /\ log[j].op.addr = VL53L0X_ADDR
         /\ Len(log[j].op.data) = 2
         /\ log[j].op.data[1] \notin SpecialIndices
         /\ log[k].op = ReadReg(VL53L0X_ADDR, log[j].op.data[1], 1)
         /\ log[k].rret = 0
         /\ \A x \in (j + 1)..(k - 1) : log[x].op.kind # "write")
        => log[k].buffer = <<log[j].op.data[2]>>

\* The polled slave: (0x42, 0xA5) was written, the read of 0x42 succeeds and
\* returns 0x00.
C1_StaleRead ==
    /\ impl = "slave"
    /\ Len(log) = 2
    /\ log[1].op = Write(VL53L0X_ADDR, <<66, 165>>)
    /\ log[2].op = ReadReg(VL53L0X_ADDR, 66, 1)
    /\ log[2].rret = 0
    /\ log[2].buffer = <<0>>

\* C2 (identity read): from the initial state, a pointer write of 0xC0
\* followed by a one-byte read returns 0xEE, and of 0xC2 returns 0x10.
C2_IdentityRead ==
    Len(log) >= 1 =>
        /\ log[1].op = ReadReg(VL53L0X_ADDR, REG_IDENTIFICATION_MODEL_ID, 1)
              => log[1].rret = 0 /\ log[1].buffer = <<VL53L0X_MODEL_ID>>
        /\ log[1].op = ReadReg(VL53L0X_ADDR, REG_IDENTIFICATION_REVISION_ID, 1)
              => log[1].rret = 0 /\ log[1].buffer = <<VL53L0X_REVISION_ID>>

\* The emulator: the pointer write of 0xC0 to 0x29 is not acknowledged and no
\* byte is read.
C2_EmuNoAnswer ==
    /\ impl = "emu"
    /\ Len(log) = 1
    /\ log[1].op = ReadReg(VL53L0X_ADDR, REG_IDENTIFICATION_MODEL_ID, 1)
    /\ log[1].wret = -1
    /\ log[1].buffer = << >>
    /\ i2c_state = "I2C_IDLE"

\* C3 (data-ready latch): after a write of 0x01 to register 0x00, the next
\* operation being a read of 0x13 that returns a byte (it returns it more than
\* 75 ms after the write: the pointer write alone lasts 18 clocks of 6 ms),
\* that byte is 0x07; and the read of 0x13 right after it returns 0x00.
C3_DataReadyLatch ==
    \A k \in 1..Len(log) :
        (/\ k + 1 <= Len(log)
         /\ log[k].op = Write(VL53L0X_ADDR, <<REG_SYSRANGE_START, 1>>)
         /\ log[k + 1].op = ReadReg(VL53L0X_ADDR, REG_RESULT_INTERRUPT_STATUS, 1)
         /\ log[k + 1].rret = 0)
        => /\ log[k + 1].buffer = <<7>>
           /\ (/\ k + 2 <= Len(log)
               /\ log[k + 2].op = ReadReg(VL53L0X_ADDR, REG_RESULT_INTERRUPT_STATUS, 1)
               /\ log[k + 2].rret = 0)
              => log[k + 2].buffer = <<0>>

\* The polled slave: start write accepted, then two reads of 0x13 in a row
\* both return 0x07.
C3_StillReady ==
    /\ impl = "slave"
    /\ Len(log) = 3
    /\ log[1].op = Write(VL53L0X_ADDR, <<REG_SYSRANGE_START, 1>>)
    /\ log[1].wret = 0
    /\ log[2].op = ReadReg(VL53L0X_ADDR, REG_RESULT_INTERRUPT_STATUS, 1)
    /\ log[2].buffer = <<7>>
    /\ log[3].op = ReadReg(VL53L0X_ADDR, REG_RESULT_INTERRUPT_STATUS, 1)
    /\ log[3].buffer = <<7>>

\* C4 (auto-increment on read): from the initial state, a pointer write of p
\* followed by a successful read of n bytes returns register[p],
\* register[p+1], ... (mod 256), and leaves the pointer at (p + n) mod 256;
\* for p = 0xC0 and n = 3 that is 0xEE, 0x00, 0x10.
C4_AutoIncrementRead ==
    (/\ Len(log) >= 1
     /\ log[1].op.kind = "readreg"
     /\ log[1].op.addr = VL53L0X_ADDR
     /\ log[1].rret = 0)
    => /\ log[1].buffer =
              [j \in 1..log[1].op.n |->
                  InitRegs[(log[1].op.data[1] + j - 1) % REGISTER_SIZE]]
       /\ (Len(log) = 1 /\ m.pc = "idle")
              => Ptr = (log[1].op.data[1] + log[1].op.n) % REGISTER_SIZE

\* The polled slave: the 3-byte read after a pointer write of 0xC0 succeeds
\* and returns 0xEE, 0xFF, 0xFF, the pointer having advanced once.
C4_OneByteSent ==
    /\ impl = "slave"
    /\ Len(log) = 1
    /\ log[1].op = ReadReg(VL53L0X_ADDR, REG_IDENTIFICATION_MODEL_ID, 3)
    /\ log[1].rret = 0
    /\ log[1].buffer = <<238, 255, 255>>
    /\ current_reg = 193

\* C5 (auto-increment on write): from the initial state, after an
\* acknowledged write of a pointer byte p and n data bytes, the data bytes
\* are stored at p, p+1, ... (checked outside the special indices) and the
\* pointer is (p + n) mod 256.
C5_AutoIncrementWrite ==
    (/\ Len(log) = 1 /\ m.pc = "idle"
     /\ log[1].op.kind = "write"
     /\ log[1].op.addr = VL53L0X_ADDR
     /\ log[1].wret = 0)
    => LET d == log[1].op.data
           n == Len(d) - 1
       IN  /\ \A j \in 1..n :
                  (d[1] + j - 1) % REGISTER_SIZE \notin SpecialIndices
                     => registers[(d[1] + j - 1) % REGISTER_SIZE] = d[j + 1]
           /\ Ptr = (d[1] + n) % REGISTER_SIZE

\* The polled slave: the write (0x00, 0x01) is acknowledged and the pointer
\* is still 0.
C5_PointerStays ==
    /\ impl = "slave"
    /\ Len(log) = 1 /\ m.pc = "idle"
    /\ log[1].op = Write(VL53L0X_ADDR, <<0, 1>>)
    /\ log[1].wret = 0
    /\ current_reg = 0
    /\ registers[0] = 1

\* C6 (address filtering): an operation addressed to another device is not
\* acknowledged, the responder does not drive SDA during it, register file,
\* pointer and measurement state stay as they were, and an identification
\* read at 0x29 that follows and returns a byte returns 0xEE.
C6_AddressFiltering ==
    /\ (Len(log) = 0 /\ cur.kind # "none" /\ cur.addr # VL53L0X_ADDR)
          => /\ sSda = "in"
             /\ registers = InitRegs
             /\ Ptr = 0
             /\ measurement_in_progress = 0
             /\ distance_mm = INITIAL_DISTANCE_SLAVE
    /\ (Len(log) >= 1 /\ log[1].op.addr # VL53L0X_ADDR)
          => /\ log[1].wret # 0 /\ log[1].rret # 0
             /\ registers = InitRegs
    /\ (/\ Len(log) >= 2
        /\ log[1].op.addr # VL53L0X_ADDR
        /\ log[2].op = ReadReg(VL53L0X_ADDR, REG_IDENTIFICATION_MODEL_ID, 1)
        /\ log[2].rret = 0)
          => log[2].buffer = <<VL53L0X_MODEL_ID>>

\* The emulator: the controller reads from address 0x14 (address byte 0x29)
\* and the emulator, having taken it for its own address, drives SDA low.
C6_EmuAnswersAlias ==
    /\ impl = "emu"
    /\ Len(log) = 0
    /\ cur = Read(20, 1)
    /\ addr = VL53L0X_ADDR
    /\ device_state = "STATE_ADDR_MATCHED"
    /\ i2c_state = "I2C_REGISTER_READ"
    /\ sSda = "lo"

\* C7 (open-drain discipline): every line handle of controller and responder
\* is released or driven low, never driven high.
C7_OpenDrain ==
    /\ mSda \in {"in", "lo"}
    /\ mScl \in {"in", "lo"}
    /\ sSda \in {"in", "lo"}
    /\ sScl \in {"in", "lo"}

\* The controller still drives the last bit of the read address byte high,
\* and the polled slave, on its way to the ACK, has taken SDA as an output
\* at level 1.
C7_DrivenHigh ==
    /\ impl = "slave"
    /\ m.fn = "read"
    /\ m.pc = "wb_in"
    /\ mSda = "hi"
    /\ s.pc = "ack_set"
    /\ sSda = "hi"

\* C8 (single driver on SDA): controller and responder never drive SDA at
\* the same time.
C8_SingleDriver == ~(mSda # "in" /\ sSda # "in")

\* The polled slave holds SDA low for the ACK of the read address byte while
\* the controller, asleep after the eighth clock, still drives its last bit
\* high.
C8_OppositeLevels ==
    /\ impl = "slave"
    /\ m.fn = "read"
    /\ m.pc = "wb_in"
    /\ mslept
    /\ mSda = "hi"
    /\ s.pc = "ack_hi"
    /\ sSda = "lo"

\* the record of the slave contains, between two STARTs or at its end,
\* exactly the bytes B
HeardExactly(B) ==
    \E i \in 1..Len(heard) :
        /\ heard[i] = StartMark
        /\ i + Len(B) <= Len(heard)
        /\ SubSeq(heard, i + 1, i + Len(B)) = B
        /\ (i + Len(B) = Len(heard) \/ heard[i + Len(B) + 1] = StartMark)

\* C9 (byte ordering): for every i2c_master_write whose bytes were all
\* acknowledged, the bytes the polled slave assembled in that transaction
\* are exactly the submitted bytes, in order.
C9_ByteOrdering ==
    impl = "slave" =>
        \A k \in 1..Len(log) :
            log[k].wret = 0 => HeardExactly(Submitted(log[k]))

\* The polled slave: the pointer write of 0x00 was acknowledged, and the
\* slave went on to assemble a third byte, 0x29, from the STOP and the first
\* seven bits of the following address byte 0x53.
C9_PhantomByte ==
    /\ impl = "slave"
    /\ Len(log) = 1
    /\ log[1].op = ReadReg(VL53L0X_ADDR, 0, 1)
    /\ log[1].wret = 0
    /\ heard = <<StartMark, 82, 0, 41>>
    /\ registers[0] = 41

DistanceReg ==
    registers[REG_RESULT_RANGE_VAL] * 256 + registers[REG_RESULT_RANGE_VAL + 1]

\* C12 (distance bounds): after any number of measurements and for every
\* outcome of the random walk, the value held in registers 0x1E/0x1F lies
\* in [100, 2000].
C12_DistanceBounds ==
    DistanceReg \in 100..2000

\* the emulator has completed a measurement whose value was clamped at the
\* lower end of the range
C12_ClampedLow ==
    /\ impl = "emu"
    /\ measurement_in_progress = 0
    /\ registers[REG_RESULT_INTERRUPT_STATUS] = 7
    /\ DistanceReg = 100
    /\ current_distance = 100

\* the polled slave is inside one of its bus primitives
\* (i2c_slave_listen, i2c_slave_send_ack, i2c_slave_read_byte,
\* slave_write_byte_fixed)
InPrimitive ==
    s.pc \in {"lis_act", "lis_sleep", "lis_hi", "lis_lo",
              "ack_mode", "ack_set", "ack_hi", "ack_lo", "ack_rel",
              "rb_mode", "rb_hi", "rb_lo",
              "wf_mode", "wf_bit", "wf_hi", "wf_lo", "wf_rel1", "wf_rel2",
              "wf_ackhi", "wf_acklo"}

\* C13 (bounded waits): every wait of the responder for a clock edge is
\* bounded, so whatever the controller does, also when it stops toggling SCL,
\* a bus primitive the responder has entered eventually returns.
C13_BoundedWaits ==
    InPrimitive ~> ~InPrimitive

\* the controller has stopped with SCL low and the polled slave polls for SCL
\* high in i2c_slave_read_byte, without a bound
C13_StuckInReadByte ==
    /\ m.pc = "halt"
    /\ mScl = "lo"
    /\ s.pc = "rb_hi"

\* the controller's last operation was cut off and no new one has begun
AfterAbort ==
    /\ m.pc = "idle"
    /\ Len(log) > 0
    /\ log[Len(log)].wret = Aborted

\* a logged operation was acknowledged by the responder
Acknowledged(e) ==
    IF e.op.kind = "write" THEN e.wret = 0 ELSE e.rret = 0

\* C14 (recovery after an aborted transaction): after a transaction was cut
\* off the responder eventually waits for START again, and the next complete
\* transaction to 0x29 is acknowledged.
C14_Recovery ==
    /\ AfterAbort ~> (s.pc = "wfs")
    /\ [](\A k \in 2..Len(log) :
            (log[k - 1].wret = Aborted /\ log[k].wret # Aborted
                /\ log[k].op.addr = VL53L0X_ADDR)
            => Acknowledged(log[k]))

\* A write to 0x29 was cut off after the polled slave had acknowledged its
\* address byte: the slave is inside i2c_slave_read_byte and polls for SCL
\* low, without a bound, on a bus that is idle.
C14_StuckAfterAbort ==
    /\ AfterAbort
    /\ Len(log) = 1
    /\ heard = <<StartMark, VL53L0X_ADDR * 2>>
    /\ s.pc = "rb_lo"
    /\ s.cont = "reg"
    /\ SclLevel = 1
    /\ ~ENABLED Responder

\* C15 (abort releases the data line): when a bounded poll of the responder
\* runs out, the transaction is given up and SDA is released: the responder
\* goes back to waiting for START; and whenever it waits for START, its SDA
\* is an input.
C15_AbortReleases ==
    /\ [](s.pc = "wfs" => sSda = "in")
    /\ [][SlaveTimeout => (s'.pc = "wfs" /\ sSda' = "in")]_vars

\* The controller stopped in the ninth clock of the address byte, before it
\* sampled the acknowledgement: the SCL-low poll of i2c_slave_send_ack ran
\* out and the polled slave went on to read the register byte.
C15_GoesOnAfterTimeout ==
    /\ m.pc = "halt"
    /\ mScl = "hi"
    /\ wire = << <<"S", 0, 0>> >>
    /\ heard = <<StartMark, VL53L0X_ADDR * 2>>
    /\ s.pc = "rb_lo"
    /\ s.cont = "reg"

\* the controller has issued START and is sending the address byte or taking
\* its acknowledgement
ControllerAtAddress ==
    /\ m.idx = 0
    /\ m.pc \in {"start_scl0", "wb_mode", "wb_bit", "wb_hi", "wb_lo", "wb_in",
                 "wb_ackhi", "wb_sample", "wb_acklo", "wb_out"}

\* C16 (START required): the responder has sampled bits of an address byte,
\* or is acknowledging one, only when a START came before: the controller is
\* then in the address byte that follows its START, not in a later byte of
\* the frame, at its end or between two frames.
C16_StartRequired ==
    (\/ s.pc = "fl_lo"
     \/ s.pc \in {"fa_mode", "fa_set", "fa_hi", "fa_lo"} /\ s.cont = "listen")
    => ControllerAtAddress

\* The controller has sent one frame, START 0x52 0x42 0x54 STOP.  The variant
\* slave has heard its address twice, the second time put together from the
\* last bits of 0x54, the empty acknowledge slot and the STOP, and pulls SDA
\* low on the idle bus to acknowledge it.
C16_AckWithoutStart ==
    /\ impl = "fixed"
    /\ m.pc = "idle"
    /\ Len(log) = 1
    /\ log[1].op = Write(VL53L0X_ADDR, <<66, 84>>)
    /\ heard = <<VL53L0X_ADDR * 2, 66, VL53L0X_ADDR * 2>>
    /\ s.pc = "fa_hi"
    /\ s.cont = "listen"
    /\ sSda = "lo"

EmuJustInitialised ==
    /\ impl = "emu"
    /\ log = << >>
    /\ cur = NoOp
    /\ i2c_state = "I2C_IDLE"
    /\ measurement_in_progress = 0

\* C18 (initial register map): right after the emulator has initialised its
\* register file, registers 0x00, 0x13 and 0x14 are 0, 0x1E/0x1F hold the
\* initial distance, 0xC0 and 0xC2 hold 0xEE and 0x10, every other register
\* is 0, and the register pointer is 0.
C18_InitialRegisterMap ==
    EmuJustInitialised =>
        /\ \A r \in 0..(REGISTER_SIZE - 1) :
               registers[r] =
                   CASE r = REG_IDENTIFICATION_MODEL_ID -> VL53L0X_MODEL_ID
                     [] r = REG_IDENTIFICATION_REVISION_ID -> VL53L0X_REVISION_ID
                     [] r = REG_RESULT_RANGE_STATUS + 10 -> (INITIAL_DISTANCE_EMU \div 256) % 256
                     [] r = REG_RESULT_RANGE_STATUS + 11 -> INITIAL_DISTANCE_EMU % 256
                     [] OTHER -> 0
        /\ current_register = 0

\* the emulator has just started and register 0x84 holds 0x01
C18_MuxRegisterSet ==
    /\ EmuJustInitialised
    /\ current_register = 0
    /\ registers = EmuInitRegisters
    /\ registers[132] = 1

\* C19 (the responder never drives the clock): in every state of the polled
\* slave and of the emulator the responder's SCL handle is an input; it is
\* never an output, at either level, so the responder cannot hold SCL low.
C19_SclIsInput ==
    /\ sScl = "in"
    /\ sScl # "lo"

\* the responder drives SDA low while the controller holds SCL low, with its
\* own SCL handle an input
C19_DrivesSdaOnly ==
    /\ sSda = "lo"
    /\ mScl = "lo"
    /\ sScl = "in"
    /\ m.pc \notin {"idle", "ret"}

\* C20 (failure position is reported): when i2c_master_write returns a
\* failure, the value returned tells which byte was not acknowledged: it is
\* not the value returned for a NACK at any other byte of the transfer (the
\* address byte is position 0, data byte i is position i + 1).
C20_FailurePositionReported ==
    (m.fn = "write" /\ m.pc = "ret" /\ m.ret # 0) =>
        \A j \in 0..Len(cur.data) :
            j # Len(wire) - 3 => m.ret # MasterWriteNext(-1, j, Len(cur.data)).ret

\* i2c_master_write of (0x42, 0xA5) returns after the NACK of data byte 1
\* with the value it returns for a NACK of the address byte
C20_DataNackLikeAddressNack ==
    /\ m.fn = "write"
    /\ m.pc = "ret"
    /\ cur = Write(VL53L0X_ADDR, <<66, 165>>)
    /\ Len(wire) = 5
    /\ wire[2][3] = 0
    /\ wire[4] = <<"W", 165, 1>>
    /\ m.ret = -1
    /\ m.ret = MasterWriteNext(-1, 0, 2).ret

\* the controller is about to put a transaction on the bus
MainAtCall ==
    m.pc \in {"id_model", "id_rev", "start", "status", "range", "dist_hi", "dist_lo"}

\* C21 (consecutive-failure trip): the controller never starts a transaction
\* with more than MAX_CONSECUTIVE_FAILURES failed transactions in a row
\* behind it: after that many it runs the bus recovery first, which it has
\* no position for, and a success sets the count back to 0.
C21_RecoveryAfterFailures ==
    MainAtCall => m.failed <= MAX_CONSECUTIVE_FAILURES

\* three register calls in a row have failed and main is about to start the
\* measurement of its second cycle
C21_FourthCallAfterThreeFailures ==
    /\ m.pc = "start"
    /\ m.cycle = 2
    /\ m.failed = MAX_CONSECUTIVE_FAILURES + 1

C23_Shutdown ==
    /\ (s.running = 0) ~> (s.pc = "exit")
    /\ [](s.pc = "exit" => (sSda = "in" /\ sScl = "in"))

\* the flag is cleared, the controller has stopped with SCL low, and the
\* slave polls for SCL high in i2c_slave_read_byte with no step left
C23_FlagClearedInPoll ==
    /\ s.running = 0
    /\ m.pc = "halt"
    /\ mScl = "lo"
    /\ s.pc = "rb_hi"
    /\ ~ENABLED ShutResponder

\* C24 (data-ready before the distance): in every cycle main reads the
\* distance registers only after a read of register 0x13 of that cycle has
\* shown bit 0 set.
C24_ReadyBeforeDistance ==
    m.pc \in {"dist_hi", "dist_lo"} => m.interrupt_status % 2 = 1

\* main is about to read register 0x1E in its first cycle, after its one
\* read of register 0x13 has delivered 0x00
C24_DistanceReadNotReady ==
    /\ m.pc = "dist_hi"
    /\ m.cycle = 1
    /\ m.interrupt_status = 0
    /\ m.failed = 0

C26_StartTrigger ==
    [][Len(log') = Len(log) + 1 =>
          LET e == log'[Len(log')]
          IN  /\ (e.reg = REG_SYSRANGE_START /\ e.value % 2 = 1 /\ e.mip = 0) =>
                     /\ measurement_in_progress' = 1
                     /\ elapsed' = 0
                     /\ registers'[REG_RESULT_INTERRUPT_STATUS] = 0
              /\ (e.reg = REG_SYSRANGE_START /\ e.value % 2 = 0) =>
                     /\ measurement_in_progress' = e.mip
                     /\ elapsed' = e.elapsed]_vars

\* 0xFF was written to register 0x00 with no measurement in progress: the
\* value sits in the register and no measurement has started
C26_OddValueStored ==
    /\ Len(log) = 1
    /\ log[1] = [reg |-> REG_SYSRANGE_START, value |-> 255, mip |-> 0, elapsed |-> 0]
    /\ measurement_in_progress = 0
    /\ device_state = "STATE_REG_SELECTED"
    /\ registers[REG_SYSRANGE_START] = 255

\* C27 (no restart while measuring): a start write received while a
\* measurement is in progress leaves the measurement in progress and its
\* time as it was.
C27_NoRestart ==
    [][Len(log') = Len(log) + 1 =>
          LET e == log'[Len(log')]
          IN  (e.reg = REG_SYSRANGE_START /\ e.value % 2 = 1 /\ e.mip = 1) =>
                  /\ measurement_in_progress' = 1
                  /\ elapsed' = e.elapsed]_vars

\* 40 ms into a measurement a second start write has come, and the time of
\* the measurement is back at 0
C27_Restarted ==
    /\ Len(log) = 2
    /\ log[1] = [reg |-> REG_SYSRANGE_START, value |-> 1, mip |-> 0, elapsed |-> 0]
    /\ log[2] = [reg |-> REG_SYSRANGE_START, value |-> 1, mip |-> 1, elapsed |-> 40]
    /\ measurement_in_progress = 1
    /\ elapsed = 0

\* the controller has clocked out the eight bits of the address byte of an
\* operation addressed to 0x29 and is about to raise SCL for the ninth clock
AddressByteSent ==
    /\ m.pc = "wb_ackhi"
    /\ m.idx = 0
    /\ cur.addr = VL53L0X_ADDR
    /\ m.byte \in {VL53L0X_ADDR * 2, VL53L0X_ADDR * 2 + 1}

\* C28 (address framing in the emulator): after START the emulator takes the
\* first seven bits as the address and the eighth as the direction; for the
\* address byte (0x29 << 1) | d it has the address 0x29 and rw_flag = d, has
\* matched, and drives SDA low from the falling edge that ends the eighth
\* bit, for the ninth clock.
C28_AddressFraming ==
    (impl = "emu" /\ AddressByteSent) =>
        /\ addr = VL53L0X_ADDR
        /\ rw_flag = m.byte % 2
        /\ device_state = "STATE_ADDR_MATCHED"
        /\ i2c_state \in {"I2C_ADDR_ACK", "I2C_REG_BITS", "I2C_REGISTER_READ"}
        /\ sSda = "lo"

\* the address byte 0x52 has been sent; the emulator has assembled 0x52 from
\* its bits 6 to 0 and a seventh shift, has not matched, and leaves SDA alone
C28_FirstBitDropped ==
    /\ impl = "emu"
    /\ AddressByteSent
    /\ m.byte = VL53L0X_ADDR * 2
    /\ Len(log) = 0
    /\ bit_count = 7
    /\ i2c_state = "I2C_ADDR_BITS"
    /\ sSda = "in"

\* the controller is inside i2c_stop, SCL low or SCL high with SDA still low,
\* and the responder has caught up with the lines
DuringStop ==
    /\ m.pc \in {"stop_scl1", "stop_sda1"}
    /\ ResponderQuiescent

\* C29 (acknowledge is released): the responder has released SDA by the time
\* the controller emits its STOP; it does not hold SDA low across the STOP,
\* so the rise of SDA during SCL high is the controller's alone to make.
C29_AckReleased == DuringStop => sSda = "in"

\* the emulator drove its acknowledge on a falling edge of SCL, has no step
\* that releases it, and still drives SDA low while the controller holds SCL
\* high for the STOP
C29_AckHeldAcrossStop ==
    /\ impl = "emu"
    /\ DuringStop
    /\ m.pc = "stop_sda1"
    /\ device_state = "STATE_ADDR_MATCHED"
    /\ i2c_state = "I2C_REGISTER_READ"
    /\ sSda = "lo"

\* a step of the responder inside the transmission of the eight bits of a
\* register byte: the emulator stays in I2C_REGISTER_READ, the polled slave
\* is in the bit loop of slave_write_byte_fixed
TransmitStep ==
    \/ EmuLoop /\ i2c_state = "I2C_REGISTER_READ" /\ i2c_state' = "I2C_REGISTER_READ"
    \/ SlaveWriteByteFixed /\ s.pc \in {"wf_bit", "wf_hi", "wf_lo"}

\* C30 (responder data is stable while the clock is high): while it
\* transmits a register byte the responder changes SDA only while SCL is low.
C30_StableWhileHigh ==
    [][(TransmitStep /\ sSda' # sSda) => SclLevel = 0]_vars

\* the emulator, transmitting register 0xC0, has handled the rising edge of
\* the first data clock: it read SDA low, then released it for the 1 bit,
\* with SCL high
C30_ChangedWhileHigh ==
    /\ impl = "emu"
    /\ i2c_state = "I2C_REGISTER_READ"
    /\ current_register = REG_IDENTIFICATION_MODEL_ID
    /\ bit_count = 1
    /\ SclLevel = 1
    /\ scl_prev = 1
    /\ sda_prev = 0
    /\ sSda = "in"

\* wait_for_start has returned 0 after taking the samples in heard
StartReported == s.pc = "start"

\* C31 (START detection needs a prior idle observation): when wait_for_start
\* reports a START it has taken at least two samples, one of its earlier
\* samples found SDA and SCL both high, and its last two samples have SCL
\* high with SDA high, then low; so never on the first sample, and never for
\* an SDA change that comes with an SCL change.
C31_StartNeedsIdle ==
    StartReported =>
        LET n == Len(heard)
        IN  /\ n >= 2
            /\ \E j \in 1..(n - 1) : heard[j] = <<1, 1>>
            /\ heard[n] = <<0, 1>>
            /\ heard[n - 1] = <<1, 1>>

\* wait_for_start of vl53l0x_slave.c was entered with SDA low and SCL high
\* and reported a START on its first sample
C31_StartOnFirstSample ==
    /\ impl = "slave"
    /\ StartReported
    /\ heard = << <<0, 1>> >>

\* i2c_master_write of the pointer byte alone has emitted its STOP with the
\* address and the pointer acknowledged, and the polled slave has caught up
PointerWriteOver ==
    /\ impl = "slave"
    /\ Len(cur.data) = 1
    /\ m.fn = "write"
    /\ m.pc = "ret"
    /\ m.ret = 0
    /\ ResponderQuiescent

\* C32 (pointer-only write ended by STOP): after a write transaction of just
\* the pointer byte and STOP, for every pointer value, the polled slave has
\* the pointer set and waits in wait_for_start for the next START; when it
\* is the first transaction, no register and no distance has changed.
C32_PointerOnlyWrite ==
    PointerWriteOver =>
        /\ current_reg = cur.data[1]
        /\ s.pc = "wfs"
        /\ sSda = "in"
        /\ Len(log) = 0 => (registers = SlaveInitRegisters
                             /\ distance_mm = INITIAL_DISTANCE_SLAVE)

\* after the pointer 0x00 and STOP the polled slave is inside
\* i2c_slave_read_byte, called for a data byte, and has sampled the SCL-high
\* phase of the STOP as the first bit
C32_StopSampledAsData ==
    /\ PointerWriteOver
    /\ cur.data[1] = REG_SYSRANGE_START
    /\ s.cont = "val"
    /\ s.pc = "rb_lo"
    /\ s.i = 7

\* i2c_master_read has run to its return
ReadReturned == m.pc = "ret" /\ m.fn = "read"

\* in the current call sda_set_mode has failed inside i2c_read_byte
LineFailed == \E k \in 1..Len(wire) : wire[k][1] \in {"F", "R8"}

\* the data bytes i2c_read_byte has clocked in from the bus with all nine
\* clocks, in the current call
ClockedBytes == {k \in 1..Len(wire) : wire[k][1] = "R"}

\* C33 (line reconfiguration failure is a transfer failure): when
\* sda_set_mode has failed during i2c_master_read, the call returns -1 with
\* SDA released; a call that returns 0 has no buffer byte that was not
\* clocked in from the bus.
C33_ReconfigurationFailureFails ==
    /\ (ReadReturned /\ LineFailed) => (m.ret = 0 - 1 /\ mSda = "in")
    /\ (ReadReturned /\ m.ret = 0) => \A k \in 1..Len(wire) : wire[k][1] # "F"

\* i2c_master_read of one byte has returned 0 with buffer[0] = 0xFF, the
\* value i2c_read_byte returns when it could not make SDA an input; no data
\* bit was clocked
C33_SuccessWithUnreadByte ==
    /\ ReadReturned
    /\ cur.n = 1
    /\ m.ret = 0
    /\ m.buffer = <<READ_BYTE_FAILED>>
    /\ ClockedBytes = {}
    /\ wire[Len(wire)][1] = "F"

\* C38 (read length is respected): a call of i2c_master_read(length) that
\* returns 0, with no line failure, has clocked exactly length data bytes
\* and has stored exactly length buffer elements; none for length 0.
C38_ReadLengthRespected ==
    (ReadReturned /\ m.ret = 0 /\ ~LineFailed) =>
        /\ Cardinality(ClockedBytes) = cur.n
        /\ Len(m.buffer) = cur.n

\* i2c_master_read with length 0 has clocked one data byte, answered it
\* with NACK and stored it (at buffer[length - 1])
C38_ByteReadForLengthZero ==
    /\ ReadReturned
    /\ cur.n = 0
    /\ m.ret = 0
    /\ ~LineFailed
    /\ Cardinality(ClockedBytes) = 1
    /\ Len(m.buffer) = 1
    /\ \A k \in ClockedBytes : wire[k][3] = 1

\* i2c_bus_recovery is in its loop of clock pulses
InRecoveryLoop == m.fn = "recovery" /\ m.pc \in {"br_lo", "br_hi", "br_check"}

\* i2c_bus_recovery has left its loop
RecoveryPulsed ==
    m.fn = "recovery" /\ m.pc \in {"stop_sda0", "stop_scl0", "stop_scl1", "stop_sda1", "ret"}

\* C34 (bus-recovery pulses): i2c_bus_recovery makes at least one and at
\* most 9 SCL pulses; the controller's SDA is an input during all of them;
\* it goes on to another pulse only when SDA did not read high after the
\* last one, and leaves the loop before the ninth pulse only when it did.
C34_RecoveryPulses ==
    /\ m.fn = "recovery" => m.idx <= RECOVERY_PULSES
    /\ InRecoveryLoop => mSda = "in"
    /\ (InRecoveryLoop /\ m.pc \in {"br_lo", "br_hi"} /\ m.idx >= 1) => m.ack # 1
    /\ RecoveryPulsed => m.idx >= 1
    /\ (RecoveryPulsed /\ m.idx < RECOVERY_PULSES) => m.ack = 1

\* the polled slave held SDA low through the first pulses and let go; the
\* recovery read SDA high after pulse k, 1 < k < 9, and left its loop
C34_StoppedWhenReleased ==
    /\ m.fn = "recovery"
    /\ m.pc = "stop_sda0"
    /\ m.ret = 0
    /\ m.idx \in 2..(RECOVERY_PULSES - 1)
    /\ m.ack = 1
    /\ mSda = "in"

\* C35 (bus recovery ends with a STOP): when i2c_bus_recovery returns, it
\* has put a STOP condition on the wire after its pulses and both lines are
\* high.
C35_RecoveryEndsWithStop ==
    (m.fn = "recovery" /\ m.pc = "ret") =>
        /\ \E k \in 1..Len(wire) : wire[k][1] = "P"
        /\ SdaLevels = {1}
        /\ SclLevel = 1

\* i2c_bus_recovery has returned after all its pulses with the polled slave
\* still driving SDA low; the controller's SDA was an input all along, so
\* i2c_stop moved SCL only
C35_NoStopOnTheWire ==
    /\ m.fn = "recovery"
    /\ m.pc = "ret"
    /\ m.ret = 0
    /\ wire = << >>
    /\ mSda = "in"
    /\ sSda = "lo"
    /\ ResponderQuiescent

\* i2c_slave_write_byte of the variant slave has finished its looks at SDA
\* and is about to return
WriteByteReturns == impl = "fixed" /\ s.pc = "fw_out"

\* C36 (responder transmit-byte result): i2c_slave_write_byte returns 0 or
\* -1; it takes SDA low as the acknowledgement only in its first look, made
\* while the controller holds SCL high for the ninth clock of the byte, and
\* only when the controller is sending ACK.
C36_TransmitResult ==
    [][(FixedWriteByte /\ s'.pc = "fw_out") =>
          /\ SlaveWriteByteResult(s'.ack) \in {0, 0 - 1}
          /\ s.pc = "fw_a_hi" =>
                (s.i = I2C_ACK_ATTEMPTS /\ m.pc = "rb_acklo" /\ m.ack = 0)]_vars

\* the controller answered the byte with NACK and went on to its STOP; the
\* variant slave, in a later look, found SDA low during the SCL-high phase
\* of the STOP and returns 0
C36_StopTakenAsAck ==
    /\ WriteByteReturns
    /\ s.ack = 0
    /\ s.i < I2C_ACK_ATTEMPTS
    /\ m.fn = "read"
    /\ m.pc \in {"stop_sda1", "ret"}
    /\ wire[Len(wire)] = <<"R", s.value, 1>> \/ wire[Len(wire) - 1] = <<"R", s.value, 1>>

\* C39 (failed read leaves the pointer alone): when i2c_slave_write_byte
\* has returned a failure to main of the variant slave, main leaves
\* current_reg as it is.
C39_FailedReadKeepsPointer ==
    [][(FixedMain /\ s.pc = "f_wdone" /\ s.write_result < 0)
        => current_reg' = current_reg]_vars

\* first transaction, a read at pointer 0x00: the controller stopped in the
\* middle of the byte, i2c_slave_write_byte ran out of time and returned -1,
\* and main has moved the pointer to 0x01
C39_PointerMovedAfterFailure ==
    /\ impl = "fixed"
    /\ s.pc = "f_end"
    /\ s.write_result = 0 - 1
    /\ m.pc = "halt"
    /\ m.buffer = << >>
    /\ heard = <<VL53L0X_ADDR * 2 + 1>>
    /\ current_reg = 1

\* the frame part of the emulator's state after one iteration of
\* i2c_slave_loop is the one in E
FrameIs(E) ==
    /\ i2c_state' = E.i2c_state
    /\ sSda' = E.sda
    /\ bit_count' = E.bit_count
    /\ addr' = E.addr
    /\ rw_flag' = E.rw_flag
    /\ current_register' = E.current_register

\* C37 (the measurement tick does not disturb a transfer): whatever
\* check_measurement does at the top of an iteration of i2c_slave_loop, the
\* iteration leaves the frame state, SDA included, as the same iteration
\* without check_measurement would; a matched address is acknowledged.
C37_TickLeavesFrameAlone ==
    [][EmuLoop => \E sd \in SdaLevels, b \in SdaLevels :
                      FrameIs(EmuEdge(EmuState, SclLevel, sd, b))]_vars

\* the measurement ended between the rising edge on which the emulator
\* matched its address and the falling edge on which it acknowledges:
\* check_measurement has set device_state to STATE_IDLE, and the falling
\* edge has passed with SDA released and the frame still in I2C_ADDR_ACK
C37_MatchedAddressNotAcknowledged ==
    /\ impl = "emu"
    /\ i2c_state = "I2C_ADDR_ACK"
    /\ addr = VL53L0X_ADDR
    /\ device_state = "STATE_IDLE"
    /\ measurement_in_progress = 0
    /\ registers[REG_RESULT_INTERRUPT_STATUS] = 7
    /\ SclLevel = 0
    /\ scl_prev = 0
    /\ sSda = "in"

====
